---- MODULE Spec2Model ----
(***************************************************************************)
(* Browser-automation session subsystem of auto-post-api                   *)
(* (src/src/services/substackService.js, second revision, lines 1676-4392, *)
(* the session store src/unnamed/part_008 and the Substack routes in       *)
(* src/src/routes/xApi.js).                                                *)
(*                                                                         *)
(* Spec      : every handler runs to completion before the next starts.    *)
(* SpecConc  : reconnectSession / recreateWebDriverSession are split at    *)
(*             their awaits, so that requests for one id interleave.       *)
(*                                                                         *)
(* Optional JavaScript values (null / undefined) are sequences: <<>> is    *)
(* null, <<v>> is the value v.  Maps are functions whose DOMAIN is the key *)
(* set.  A Date object and an ISO string are told apart: the registry holds *)
(* Date objects, sessions.json holds the strings JSON.stringify makes of   *)
(* them, and new Date(string) makes a Date again.                          *)
(***************************************************************************)
EXTENDS Integers, Sequences, FiniteSets, TLC

VARIABLES
  activeSessions,  \* Map sessionId -> live session (driver, createdAt, status, email, userData)
  store,           \* sessions.json: sessionId -> persisted record
  drivers,         \* per id: WebDriver instances built by this process and not yet quit
  used,            \* session ids ever generated
  now,             \* Date.now()
  pending,         \* SpecConc: recoveries that built a browser and have not yet registered it
  extracted,       \* per id: the bundle last read out of the registered browser, if any
  writers,         \* SpecStore: store mutations that have read the file and not yet written it
  readable,        \* sessions.json can be read and parsed
  driving,         \* SpecDrive: per id, waits that poll the browser and have not returned
  last             \* the request handled by the last step and its response

vars == <<activeSessions, store, drivers, used, now, pending, extracted,
          writers, readable, driving, last>>

----------------------------------------------------------------------------
(* Bounds *)
MaxSessions == 2      \* session ids of the multi-session specifications
MaxFocus == 1         \* session ids requests name in Spec, SpecConc and SpecPost
MaxClock == 1
MaxDrivers == 2
MaxButtons == 2       \* buttons on a page of the publish funnel
MaxPolls == 2         \* polls of waitForEmailVerification before its deadline

(* Program constants *)
MaxTitleLen == 200
MaxContentLen == 100000
FreshnessWindow == 1      \* 12 hours; one clock unit stands for 12 hours

Ids == 1..(IF MaxFocus > MaxSessions THEN MaxFocus ELSE MaxSessions)
Focus == 1..MaxFocus
Sweep == 1..MaxSessions
Times == 0..MaxClock
Emails == {"user@example.com", "other@example.com"}
NullStr == "null"
None == <<>>
Some(v) == <<v>>

\* what the requests' status field may carry (spec.md section 3)
Statuses == {"created", "awaiting_verification", "logged_in", "verification_timeout"}

\* kinds of URL a browser can be on
Urls == {"blank", "signin", "verify", "home"}
IncludesSubstack(u) == u # "blank"
IncludesSignIn(u) == u = "signin"
IncludesVerify(u) == u = "verify"

\* new Date() at clock reading t; JSON.stringify turns a Date into its ISO
\* string and leaves a string alone; new Date(x) parses either
DateAt(t) == <<"Date", t>>
ToJSON(x) == <<"string", x[2]>>
NewDate(x) == <<"Date", x[2]>>
GetTime(date) == date[2]

Has(m, k) == k \in DOMAIN m
Put(m, k, v) == [x \in DOMAIN m \cup {k} |-> IF x = k THEN v ELSE m[x]]
Del(m, k) == [x \in DOMAIN m \ {k} |-> m[x]]
EmptyMap == [x \in {} |-> 0]

----------------------------------------------------------------------------
(* SessionStore (src/unnamed/part_008) *)

\* the object a caller hands to saveSession: the registry record itself,
\* driver included; it has no authTokens property of its own
Snapshot(session) ==
  [driver |-> session.driver,
   status |-> session.status, email |-> session.email,
   createdAt |-> session.createdAt, userData |-> session.userData,
   authTokens |-> None]

\* a saveSession that stamps createdAt the way it stamps lastActiveAt
StoreSaveSessionStamped(st, id, data, t) ==
  Put(st, id, [id |-> id,
               status |-> data.status,
               email |-> data.email,
               createdAt |-> ToJSON(DateAt(t)),
               lastActiveAt |-> t,
               userData |-> data.userData,
               authTokens |-> data.authTokens])

\* a saveSession that writes the object it is handed, as it is
StoreSaveSessionWhole(st, id, data, t) ==
  Put(st, id, [k \in DOMAIN data \cup {"id", "lastActiveAt"} |->
                 IF k = "id" THEN id
                 ELSE IF k = "lastActiveAt" THEN t
                 ELSE IF k = "createdAt" THEN ToJSON(data.createdAt)
                 ELSE data[k]])

\* 66-82: the record is built from named properties of sessionData and
\* written as JSON
StoreSaveSession(st, id, data, t) ==
  Put(st, id, [id |-> id,
               status |-> data.status,
               email |-> data.email,
               createdAt |-> ToJSON(data.createdAt),
               lastActiveAt |-> t,
               userData |-> data.userData,
               authTokens |-> data.authTokens])

StoreDeleteSession(st, id) == Del(st, id)

IsExpired(age, maxAgeMs) == age > maxAgeMs

StoreCleanupExpired(st, maxAgeMs, t) ==
  [x \in {y \in DOMAIN st : ~IsExpired(t - GetTime(NewDate(st[y].createdAt)), maxAgeMs)} |-> st[x]]

StoreUpdateLastActive(st, id, t) ==
  IF Has(st, id) THEN [st EXCEPT ![id].lastActiveAt = t] ELSE st

----------------------------------------------------------------------------
(* Responses *)
Resp(op, id) ==
  [op |-> op, id |-> id, ok |-> TRUE, err |-> "none", status |-> NullStr,
   flag |-> FALSE, token |-> None, email |-> NullStr,
   maxAge |-> 0, maxPersistentAge |-> 0,
   isDraft |-> FALSE, clicked |-> {}, called |-> FALSE,
   titleLen |-> 0, contentLen |-> 0, offered |-> {}, restore |-> None,
   located |-> {}, requested |-> NullStr, subdomain |-> NullStr,
   discovery |-> FALSE, refresh |-> "none", listing |-> None]

Fail(op, id, err) == [Resp(op, id) EXCEPT !.ok = FALSE, !.err = err]

----------------------------------------------------------------------------
(* getSessionStatus, substackService.js 2562-2591 *)
GetSessionStatus(act, st, id) ==
  IF ~Has(act, id) /\ ~Has(st, id)
  THEN [exists |-> FALSE, status |-> "not_found", isActive |-> FALSE,
        isPersistent |-> FALSE, needsReconnection |-> FALSE,
        email |-> NullStr, createdAt |-> None]
  ELSE LET session == IF Has(act, id) THEN Snapshot(act[id]) ELSE
                        [status |-> st[id].status, email |-> st[id].email,
                         createdAt |-> st[id].createdAt,
                         userData |-> st[id].userData, authTokens |-> None]
           isActive == Has(act, id)
           isPersistent == Has(st, id)
       IN [exists |-> TRUE, status |-> session.status, isActive |-> isActive,
           isPersistent |-> isPersistent,
           needsReconnection |->
             isPersistent /\ ~isActive /\ session.status = "logged_in",
           email |-> session.email, createdAt |-> session.createdAt]

----------------------------------------------------------------------------
(* createSession, substackService.js 1697-1741 *)
\* a createSession that would register the session as already awaiting a code
NewSessionAwaiting(t) ==
  [driver |-> [url |-> "blank"], createdAt |-> DateAt(t),
   status |-> "awaiting_verification",
   email |-> NullStr, userData |-> None]

NewSession(t) ==
  [driver |-> [url |-> "blank"], createdAt |-> DateAt(t), status |-> "created",
   email |-> NullStr, userData |-> None]

CreateSession(id, buildOk) ==
  /\ id \notin used
  /\ drivers[id] < MaxDrivers
  /\ IF buildOk
     THEN /\ used' = used \cup {id}
          /\ activeSessions' = Put(activeSessions, id, NewSession(now))
          /\ store' = StoreSaveSession(store, id, Snapshot(NewSession(now)), now)
          /\ drivers' = [drivers EXCEPT ![id] = @ + 1]
          /\ last' = Resp("createSession", id)
     ELSE /\ UNCHANGED <<activeSessions, store, drivers, used>>
          /\ last' = Fail("createSession", 0, "automation")
  /\ UNCHANGED <<now, pending, extracted, writers, readable, driving>>

----------------------------------------------------------------------------
(* Recovery: recreateWebDriverSession 2913-2981, reconnectSession 2983-3183 *)

\* outcomes of starting and driving the fresh browser
RecoverOutcomes == {"ok", "bounced", "build_fail", "nav_fail"}

Outcome(act, st, drv, ok, err, flag) ==
  [act |-> act, st |-> st, drv |-> drv, ok |-> ok, err |-> err, flag |-> flag]

\* a recovery that would not look for a live handle first
NeverActive(act, id) == FALSE

\* 2916, 2986: activeSessions.has(sessionId)
AlreadyActive(act, id) == Has(act, id)

\* a recovery that would register the session as freshly created
RecoveredAsCreated(persistentSession, url) ==
  [driver |-> [url |-> url],
   createdAt |-> NewDate(persistentSession.createdAt),
   status |-> "created",
   email |-> persistentSession.email,
   userData |-> persistentSession.userData]

\* a recovery that would start the age of the session over
RecoveredStartingOver(persistentSession, url) ==
  [driver |-> [url |-> url],
   createdAt |-> DateAt(now),
   status |-> persistentSession.status,
   email |-> persistentSession.email,
   userData |-> persistentSession.userData]

\* the record both recovery operations register under the existing id
RecoveredSession(persistentSession, url) ==
  [driver |-> [url |-> url],
   createdAt |-> NewDate(persistentSession.createdAt),
   status |-> persistentSession.status,
   email |-> persistentSession.email,
   userData |-> persistentSession.userData]

RecreateWebDriverSession(act, st, drv, id, t, o) ==
  IF AlreadyActive(act, id) THEN Outcome(act, st, drv, TRUE, "none", FALSE)
  ELSE IF ~Has(st, id) THEN Outcome(act, st, drv, FALSE, "not_found", FALSE)
  ELSE IF o = "build_fail" THEN Outcome(act, st, drv, FALSE, "automation", FALSE)
  ELSE Outcome(Put(act, id, RecoveredSession(st[id], "blank")),
               StoreUpdateLastActive(st, id, t),
               [drv EXCEPT ![id] = @ + 1], TRUE, "none", TRUE)

ReconnectSession(act, st, drv, id, t, o) ==
  IF AlreadyActive(act, id) THEN Outcome(act, st, drv, TRUE, "none", FALSE)
  ELSE IF ~Has(st, id) THEN Outcome(act, st, drv, FALSE, "not_found", FALSE)
  ELSE IF st[id].status # "logged_in"
       THEN Outcome(act, st, drv, FALSE, "invalid_state", FALSE)
  ELSE IF o = "build_fail" THEN Outcome(act, st, drv, FALSE, "automation", FALSE)
  ELSE IF o = "nav_fail"
       \* driver.get / navigate().refresh() throws after build(): the browser
       \* is neither registered nor quit
       THEN Outcome(act, st, [drv EXCEPT ![id] = @ + 1], FALSE, "automation", FALSE)
  ELSE Outcome(Put(act, id, RecoveredSession(st[id],
                                 IF o = "bounced" THEN "signin" ELSE "home")),
               StoreUpdateLastActive(st, id, t),
               [drv EXCEPT ![id] = @ + 1], TRUE, "none", TRUE)

\* the block that opens initiateLogin, submitVerificationCode and
\* waitForEmailVerification (1751-1775, 1937-1961, 2812-2836)
EnsureLive(act, st, drv, id, t, o) ==
  IF Has(act, id) THEN Outcome(act, st, drv, TRUE, "none", FALSE)
  ELSE IF Has(st, id)
       THEN IF st[id].status = "logged_in"
            THEN ReconnectSession(act, st, drv, id, t, o)
            ELSE RecreateWebDriverSession(act, st, drv, id, t, o)
  ELSE Outcome(act, st, drv, FALSE, "not_found", FALSE)

\* the block that opens createPost (3374-3390): no recreate branch
EnsureLiveForPost(act, st, drv, id, t, o) ==
  IF Has(act, id) THEN Outcome(act, st, drv, TRUE, "none", FALSE)
  ELSE IF Has(st, id) /\ st[id].status = "logged_in"
       THEN ReconnectSession(act, st, drv, id, t, o)
  ELSE Outcome(act, st, drv, FALSE, "not_found", FALSE)

\* a browser that has just been started has had nothing read out of it
FreshBrowser(ex, id, started) == IF started THEN [ex EXCEPT ![id] = None] ELSE ex

\* the recovery outcome is drawn only where a browser is started
RecoverChoices(id, outcomes) ==
  IF Has(activeSessions, id) \/ ~Has(store, id) THEN {"ok"} ELSE outcomes

Reconnect(id, o) ==
  LET r == ReconnectSession(activeSessions, store, drivers, id, now, o) IN
  /\ r.drv[id] <= MaxDrivers
  /\ activeSessions' = r.act
  /\ store' = r.st
  /\ drivers' = r.drv
  /\ extracted' = FreshBrowser(extracted, id, r.flag)
  /\ last' = [Resp("reconnectSession", id) EXCEPT
                !.ok = r.ok, !.err = r.err, !.flag = r.flag]
  /\ UNCHANGED <<used, now, pending, writers, readable, driving>>

Recreate(id, o) ==
  LET r == RecreateWebDriverSession(activeSessions, store, drivers, id, now, o) IN
  /\ r.drv[id] <= MaxDrivers
  /\ activeSessions' = r.act
  /\ store' = r.st
  /\ drivers' = r.drv
  /\ extracted' = FreshBrowser(extracted, id, r.flag)
  /\ last' = [Resp("recreateWebDriverSession", id) EXCEPT
                !.ok = r.ok, !.err = r.err, !.flag = r.flag]
  /\ UNCHANGED <<used, now, pending, writers, readable, driving>>

----------------------------------------------------------------------------
(* User data and credential *)

\* extractAuthTokens 2163-2242: the bundle carries its extraction instant
\* 2168, 2182-2188: every cookie of the browser is kept, name to value, the
\* value a string
CookieNames == {"substack.sid", "ab_variant"}
BrowserCookies == [name \in CookieNames |-> <<"string", name>>]

ExtractAuthTokens(t) == [extractedAt |-> t, cookies |-> BrowserCookies]

\* the first element of a sequence that is not in a set, or null
RECURSIVE FirstNotIn(_, _)
FirstNotIn(seq, excluded) ==
  IF seq = <<>> THEN NullStr
  ELSE IF Head(seq) \notin excluded THEN Head(seq)
  ELSE FirstNotIn(Tail(seq), excluded)

\* what the pages and the browser hold when getUserData looks for the
\* subdomain, each in the order the code meets it: the "subdomain" values of
\* the embedded publications metadata (2358-2364), the subdomains of the
\* home-page links whose text names write, dashboard or publish (2388-2407),
\* those of the publish links of the publications page (2436-2447), and those
\* of the local-storage values (2469-2486)
Profile(publications, homeLinks, writeLinks, localStorage) ==
  [publications |-> publications, homeLinks |-> homeLinks,
   writeLinks |-> writeLinks, localStorage |-> localStorage]

NoProfile == Profile(<<>>, <<>>, <<>>, <<>>)
PubProfile == Profile(<<"pub">>, <<>>, <<>>, <<>>)

\* getUserData 2344-2490: each method runs only when the ones before it found
\* nothing, and takes the first value that passes its own comparison:
\* 2370-2371 (support, www), 2397-2401 (www, support, help), 2440 and 2479
\* (www, support)
DetectSubdomain(profile) ==
  LET m1 == FirstNotIn(profile.publications, {"support", "www"})
      m1b == FirstNotIn(profile.homeLinks, {"www", "support", "help"})
      m2 == FirstNotIn(profile.writeLinks, {"www", "support"})
      m3 == FirstNotIn(profile.localStorage, {"www", "support"})
  IN IF m1 # NullStr THEN m1 ELSE IF m1b # NullStr THEN m1b
     ELSE IF m2 # NullStr THEN m2 ELSE m3

\* getUserData 2249-2555: best-effort scraping; each field may stay null,
\* the bundle is extracted last.  found = <<email found, profile>>
GetUserData(email, found, t) ==
  [email |-> IF found[1] THEN email ELSE NullStr,
   subdomain |-> DetectSubdomain(found[2]),
   authTokens |-> Some(ExtractAuthTokens(t))]

FoundAll == <<TRUE, PubProfile>>
FoundNone == <<FALSE, NoProfile>>
Found == {FoundAll, FoundNone}

TokenLifetime == 86400   \* 24 * 60 * 60 seconds (2735)
MaxTokenLag == 1         \* seconds that pass between the two clock readings
\* seconds in one unit of the clock (12 hours)
ClockUnit == TokenLifetime \div 2
TokenLags == 0..MaxTokenLag

\* 2735: Math.floor(Date.now() / 1000) + 24 * 60 * 60, the first reading
ExpiresAt(t) == t * ClockUnit + TokenLifetime

\* 2736: Math.floor(Date.now() / 1000), read again after the expiry was
\* computed; lag is what the clock moved between the two readings
IssuedAt(t, lag) == t * ClockUnit + lag

\* createSubstackAuthToken 2724-2746; the signed token is its payload
\* a credential that would name no provider
AnonymousAuthToken(userData, t, lag) ==
  [provider |-> NullStr, email |-> userData.email,
   authTokens |-> userData.authTokens,
   exp |-> ExpiresAt(t), iat |-> IssuedAt(t, lag)]

CreateSubstackAuthToken(userData, t, lag) ==
  [provider |-> "substack", email |-> userData.email,
   authTokens |-> userData.authTokens,
   exp |-> ExpiresAt(t), iat |-> IssuedAt(t, lag)]

----------------------------------------------------------------------------
(* initiateLogin, substackService.js 1749-1927 *)

\* what happens after the prelude: the sign-in page cannot be loaded, the
\* email field or the button is not located, or the URL read 3 s after the
\* click
LoginOutcomes == {"get_fail", "locate_fail", "signin", "verify", "home"}

AlreadyLoggedIn(currentUrl) ==
  IncludesSubstack(currentUrl) /\ ~IncludesSignIn(currentUrl)

InitiateLogin(id, email, ro, o, found) ==
  LET r == EnsureLive(activeSessions, store, drivers, id, now, ro)
      fresh == FreshBrowser(extracted, id, r.flag) IN
  /\ r.drv[id] <= MaxDrivers
  /\ drivers' = r.drv
  /\ UNCHANGED <<used, now, pending, writers, readable, driving>>
  /\ IF ~r.ok
     THEN /\ activeSessions' = r.act
          /\ store' = r.st
          /\ extracted' = fresh
          /\ last' = [Fail("initiateLogin", id, r.err) EXCEPT !.email = email]
     ELSE LET session == r.act[id] IN
          IF o = "get_fail"
          THEN /\ activeSessions' = r.act
               /\ store' = r.st
               /\ extracted' = fresh
               /\ last' = [Fail("initiateLogin", id, "automation") EXCEPT !.email = email]
          ELSE IF o = "locate_fail"
          THEN /\ activeSessions' = [r.act EXCEPT ![id].driver.url = "signin"]
               /\ store' = r.st
               /\ extracted' = fresh
               /\ last' = [Fail("initiateLogin", id, "automation") EXCEPT !.email = email]
          ELSE IF AlreadyLoggedIn(o)
          \* status is set on the live record only; the user data is returned,
          \* not kept, and nothing is saved
          THEN LET userData == GetUserData(email, found, now) IN
               /\ activeSessions' = [r.act EXCEPT ![id].status = "logged_in",
                                                  ![id].driver.url = "home"]
               /\ store' = r.st
               /\ extracted' = [fresh EXCEPT ![id] = userData.authTokens]
               /\ last' = [Resp("initiateLogin", id) EXCEPT
                             !.status = "logged_in", !.email = email,
                             !.token = Some(userData)]
          ELSE LET s2 == [session EXCEPT !.status = "awaiting_verification",
                                         !.email = email,
                                         !.driver.url = o] IN
               /\ activeSessions' = [r.act EXCEPT ![id] = s2]
               /\ store' = StoreSaveSession(r.st, id, Snapshot(s2), now)
               /\ extracted' = fresh
               /\ last' = [Resp("initiateLogin", id) EXCEPT
                             !.status = "awaiting_verification", !.email = email]

----------------------------------------------------------------------------
(* submitVerificationCode, substackService.js 1935-2156 *)

\* the code field or the button is not located; the URL stays on the
\* sign-in path for the whole bounded wait; the URL leaves it
VerifyOutcomes == {"locate_fail", "stay", "left"}

\* a guard that would let any session past creation submit a code
StatusPastCreation(status) == status # "created"

\* 1963: session.status !== "awaiting_verification" throws
StatusPermitsVerification(status) == status = "awaiting_verification"

\* a wait that would mark the session before the URL has left the sign-in path
MarkedBeforeTheWait(session) ==
  [session EXCEPT !.status = "logged_in", !.driver.url = "signin"]

\* 2120-2125 timing out: the browser is still on the sign-in path and the
\* assignment of 2127 was not reached
StayedOnSignIn(session) == [session EXCEPT !.driver.url = "signin"]

SubmitVerificationCode(id, ro, o, found) ==
  LET r == EnsureLive(activeSessions, store, drivers, id, now, ro)
      fresh == FreshBrowser(extracted, id, r.flag) IN
  /\ r.drv[id] <= MaxDrivers
  /\ drivers' = r.drv
  /\ UNCHANGED <<used, now, pending, writers, readable, driving>>
  /\ IF ~r.ok
     THEN /\ activeSessions' = r.act
          /\ store' = r.st
          /\ extracted' = fresh
          /\ last' = Fail("submitVerificationCode", id, r.err)
     ELSE LET session == r.act[id] IN
          IF ~StatusPermitsVerification(session.status)
          THEN /\ activeSessions' = r.act
               /\ store' = r.st
               /\ extracted' = fresh
               /\ last' = [Fail("submitVerificationCode", id, "invalid_state")
                             EXCEPT !.status = session.status]
          \* a page that is not a Substack page has no input to type into
          ELSE IF o = "locate_fail" \/ ~IncludesSubstack(session.driver.url)
          THEN /\ activeSessions' = r.act
               /\ store' = r.st
               /\ extracted' = fresh
               /\ last' = Fail("submitVerificationCode", id, "automation")
          ELSE IF o = "stay"
          THEN /\ activeSessions' = [r.act EXCEPT ![id] = StayedOnSignIn(session)]
               /\ store' = r.st
               /\ extracted' = fresh
               /\ last' = Fail("submitVerificationCode", id, "automation")
          ELSE LET userData == GetUserData(session.email, found, now)
                   s2 == [session EXCEPT !.status = "logged_in",
                                         !.userData = Some(userData),
                                         !.driver.url = "home"] IN
               /\ activeSessions' = [r.act EXCEPT ![id] = s2]
               /\ store' = StoreSaveSession(r.st, id, Snapshot(s2), now)
               /\ extracted' = [fresh EXCEPT ![id] = userData.authTokens]
               /\ \E lag \in TokenLags :
                    last' = [Resp("submitVerificationCode", id) EXCEPT
                               !.status = "logged_in",
                               !.token = Some(CreateSubstackAuthToken(
                                                userData, now, lag))]

----------------------------------------------------------------------------
(* waitForEmailVerification, substackService.js 2809-2906 *)

\* what one poll's driver.getCurrentUrl() yields: it throws, or a URL
\* what one poll meets: getCurrentUrl throws, or it reads a URL; after an
\* authenticated URL the user data is read and the token signed, or one of
\* the two throws (2547, 2739-2743)
Readings == {"error", "signin", "verify", "home", "home_throws"}

\* the polls that fit before the deadline
PollRuns == UNION {[1..n -> Readings] : n \in 0..MaxPolls}

VerifiedUrl(currentUrl) ==
  /\ IncludesSubstack(currentUrl)
  /\ ~IncludesSignIn(currentUrl)
  /\ ~IncludesVerify(currentUrl)

\* a browser left on a blank page is taken nowhere by the email link
Reading(session, reading) ==
  IF reading = "error" \/ IncludesSubstack(session.driver.url) THEN reading
  ELSE "blank"

CurrentUrl(reading) == IF reading = "home_throws" THEN "home" ELSE reading

\* 2849-2889: the status is set on the live record as soon as a poll reads
\* an authenticated URL (2861); the loop returns when the user data and the
\* token are there; whatever a poll throws, before or after 2861, is logged
\* and the loop goes on
RECURSIVE PollLoop(_, _)
PollLoop(session, polls) ==
  IF polls = <<>> THEN [session |-> session, verified |-> FALSE]
  ELSE LET reading == Reading(session, Head(polls))
           currentUrl == CurrentUrl(reading) IN
       IF reading = "error" THEN PollLoop(session, Tail(polls))
       ELSE IF VerifiedUrl(currentUrl)
       THEN LET s2 == [session EXCEPT !.status = "logged_in",
                                      !.driver.url = currentUrl] IN
            IF reading = "home_throws" THEN PollLoop(s2, Tail(polls))
            ELSE [session |-> s2, verified |-> TRUE]
       ELSE PollLoop([session EXCEPT !.driver.url = currentUrl], Tail(polls))

\* tailOk: the URL read after the deadline (2892) is read without error
\* 2841-2901, on a registered session: what the loop and the code after
\* it leave in the registry, what was read out of the browser, the response
WaitSteps(act, ex, id, polls, tailOk, found, t, lag) ==
  LET w == PollLoop(act[id], polls)
      userData == GetUserData(w.session.email, found, t) IN
  [act |-> [act EXCEPT ![id] = w.session],
   ex |-> IF w.verified THEN [ex EXCEPT ![id] = userData.authTokens] ELSE ex,
   resp |-> IF w.verified
            THEN [Resp("waitForEmailVerification", id) EXCEPT
                    !.status = "logged_in",
                    !.token = Some(CreateSubstackAuthToken(userData, t, lag))]
            ELSE IF tailOk
            THEN [Resp("waitForEmailVerification", id) EXCEPT
                    !.ok = FALSE, !.status = "verification_timeout"]
            ELSE Fail("waitForEmailVerification", id, "automation")]

\* the token's clock readings are taken only when a poll saw the login
MintLags(session, polls) ==
  IF PollLoop(session, polls).verified THEN TokenLags ELSE {0}

WaitForEmailVerification(id, ro, polls, tailOk, found) ==
  LET r == EnsureLive(activeSessions, store, drivers, id, now, ro)
      fresh == FreshBrowser(extracted, id, r.flag) IN
  /\ r.drv[id] <= MaxDrivers
  /\ drivers' = r.drv
  /\ store' = r.st
  /\ UNCHANGED <<used, now, pending, writers, readable, driving>>
  /\ IF ~r.ok
     THEN /\ activeSessions' = r.act
          /\ extracted' = fresh
          /\ last' = Fail("waitForEmailVerification", id, r.err)
     ELSE \E lag \in MintLags(r.act[id], polls) :
          LET w == WaitSteps(r.act, fresh, id, polls, tailOk, found, now, lag) IN
          /\ activeSessions' = w.act
          /\ extracted' = w.ex
          /\ last' = w.resp

----------------------------------------------------------------------------
(* refreshSessionAuth, substackService.js 3190-3234 *)
RefreshedSession(session, t) ==
  IF session.userData = None
  THEN [session EXCEPT !.driver.url = "home"]
  ELSE [session EXCEPT !.driver.url = "home",
                       !.userData = Some([session.userData[1] EXCEPT
                                            !.authTokens = Some(ExtractAuthTokens(t))])]

RefreshSessionAuth(act, st, id, t, o) ==
  IF ~Has(act, id) THEN [act |-> act, st |-> st, ok |-> FALSE, err |-> "not_found"]
  ELSE IF o = "nav_fail" THEN [act |-> act, st |-> st, ok |-> FALSE, err |-> "automation"]
  ELSE LET s2 == RefreshedSession(act[id], t) IN
       [act |-> [act EXCEPT ![id] = s2],
        st |-> StoreSaveSession(st, id,
                 [Snapshot(s2) EXCEPT !.authTokens = Some(ExtractAuthTokens(t))], t),
        ok |-> TRUE, err |-> "none"]

Refresh(id, o) ==
  LET r == RefreshSessionAuth(activeSessions, store, id, now, o) IN
  /\ activeSessions' = r.act
  /\ store' = r.st
  /\ extracted' = IF r.ok THEN [extracted EXCEPT ![id] = Some(ExtractAuthTokens(now))]
                  ELSE extracted
  /\ last' = [Resp("refreshSessionAuth", id) EXCEPT !.ok = r.ok, !.err = r.err]
  /\ UNCHANGED <<drivers, used, now, pending, writers, readable, driving>>

----------------------------------------------------------------------------
(* closeSession 2651-2679, cleanupOldSessions 2686-2717 *)
Quit(drv, id) == [drv EXCEPT ![id] = IF @ > 0 THEN @ - 1 ELSE 0]

CloseSession(id, keepPersistent) ==
  /\ activeSessions' = IF Has(activeSessions, id) THEN Del(activeSessions, id)
                       ELSE activeSessions
  /\ drivers' = IF Has(activeSessions, id) THEN Quit(drivers, id) ELSE drivers
  /\ store' = IF keepPersistent THEN store ELSE StoreDeleteSession(store, id)
  /\ extracted' = [extracted EXCEPT ![id] = None]
  \* 2672: true is returned whatever was found; quit() is caught at 2659 and
  \* the store does not throw, so the catch of 2675 is never entered
  /\ last' = [Resp("closeSession", id) EXCEPT !.ok = TRUE, !.flag = keepPersistent]
  /\ UNCHANGED <<used, now, pending, writers, readable, driving>>

\* a sweep that keeps the record of a session that is exactly at the limit
KeepPersistentAtLimit(sessionAge, maxPersistentAge) == sessionAge <= maxPersistentAge

KeepPersistent(sessionAge, maxPersistentAge) == sessionAge < maxPersistentAge

\* clock ticks that can pass between the clock reading of the sweep (2690)
\* and that of the store (part_008 118), while browsers are quit
MaxSweepTime == 2

\* thresholds a sweep is called with: up to one tick beyond the oldest session
SweepThresholds == 0..(MaxClock + 1)

\* a sweep that would also take sessions whose age equals the threshold
OlderOrEqual(sessionAge, maxAge) == sessionAge >= maxAge

\* 2693: sessionAge > maxAge
OlderThan(sessionAge, maxAge) == sessionAge > maxAge

\* the live sessions the sweep closes
SweepClosed(act, maxAge, t) ==
  {id \in DOMAIN act : OlderThan(t - GetTime(NewDate(act[id].createdAt)), maxAge)}

\* the sweep reads the clock once for the live sessions (2690); the store
\* reads it again (part_008 118) after the closes, `elapsed` ticks later
SweepSessions(maxAge, maxPersistentAge, elapsed) ==
  LET closed == SweepClosed(activeSessions, maxAge, now)
      dropped == {id \in closed :
                    ~KeepPersistent(now - GetTime(NewDate(activeSessions[id].createdAt)),
                                    maxPersistentAge)}
      st1 == [x \in DOMAIN store \ dropped |-> store[x]]
  IN
  /\ now' = now + elapsed
  /\ activeSessions' = [x \in DOMAIN activeSessions \ closed |-> activeSessions[x]]
  /\ drivers' = [i \in Ids |-> IF i \in closed THEN Quit(drivers, i)[i] ELSE drivers[i]]
  /\ store' = StoreCleanupExpired(st1, maxPersistentAge, now + elapsed)
  /\ extracted' = [i \in Ids |-> IF i \in closed THEN None ELSE extracted[i]]
  /\ last' = [Resp("cleanupOldSessions", 0) EXCEPT
                !.maxAge = maxAge, !.maxPersistentAge = maxPersistentAge]
  /\ UNCHANGED <<used, pending, writers, readable, driving>>

\* a sweep called with thresholds, within the clock of the model
CleanupOldSessions(maxAge, maxPersistentAge, elapsed) ==
  /\ elapsed <= MaxSweepTime
  /\ now + elapsed <= MaxClock + MaxSweepTime
  /\ SweepSessions(maxAge, maxPersistentAge, elapsed)

----------------------------------------------------------------------------
(* PUT /session/:sessionId/status, xApi.js 398-448, and updateSessionStatus,
   substackService.js 4259-4279 *)

\* getSessionStatus returns no userData, so the snapshot carries the
\* request's userData or none at all
UpdatedSession(status, current, userData) ==
  [status |-> status, email |-> current.email, createdAt |-> current.createdAt,
   userData |-> userData, authTokens |-> None]

UpdateSessionStatus(id, status, userData) ==
  LET current == GetSessionStatus(activeSessions, store, id)
      updated == UpdatedSession(status, current, userData) IN
  /\ UNCHANGED <<drivers, used, now, pending, extracted, writers, readable, driving>>
  /\ IF ~current.exists
     THEN /\ UNCHANGED <<activeSessions, store>>
          /\ last' = Fail("updateSessionStatus", id, "not_found")
     ELSE /\ store' = StoreSaveSession(store, id, updated, now)
          /\ activeSessions' =
               IF Has(activeSessions, id)
               THEN [activeSessions EXCEPT ![id].status = updated.status,
                                           ![id].userData = updated.userData]
               ELSE activeSessions
          /\ last' = [Resp("updateSessionStatus", id) EXCEPT !.status = status]

----------------------------------------------------------------------------
(* The publish funnel's pages.  A page is the sequence of its buttons in
   document order; findElement returns the first match in that order. *)

ButtonKinds == {"continue", "send_now", "publish_now", "save_draft", "subscribe"}

ButtonText(k) ==
  CASE k = "continue" -> "Continue"
    [] k = "send_now" -> "Send to everyone now"
    [] k = "publish_now" -> "Publish now"
    [] k = "save_draft" -> "Save as draft"
    [] OTHER -> "Subscribe"

ButtonType(k) == IF k \in {"send_now", "subscribe"} THEN "submit" ELSE "button"
ButtonClass(k) == IF k \in {"send_now", "publish_now"} THEN "primary" ELSE ""
ButtonTestId(k) == ""

\* String.includes / XPath contains() on the texts above, for the needles
\* the selectors use
Includes(text, needle) ==
  \/ text = needle
  \/ text = "Publish now" /\ needle \in {"Publish", "publish"}
  \/ text = "Save as draft" /\ needle \in {"save", "draft"}
  \/ text = "Send to everyone now" /\ needle = "send to everyone now"
  \/ text = "Continue" /\ needle = "continue"

Sel(attr, val) == [attr |-> attr, val |-> val]

Matches(sel, k) ==
  CASE sel.attr = "text" -> Includes(ButtonText(k), sel.val)
    [] sel.attr = "type" -> ButtonType(k) = sel.val
    [] sel.attr = "class" -> ButtonClass(k) = sel.val
    [] sel.attr = "testid" -> ButtonTestId(k) = sel.val
    [] OTHER -> FALSE

\* 3950-3962
ContinueSelectors ==
  << Sel("testid", "publish-button"), Sel("text", "Continue"),
     Sel("text", "Continue"), Sel("text", "Next"), Sel("text", "Publish"),
     Sel("title", "Continue"), Sel("type", "submit"), Sel("type", "submit"),
     Sel("class", "primary"), Sel("class", "continue") >>

\* 3997-4018
ButtonSelectors(isDraft) ==
  IF isDraft
  THEN << Sel("testid", "save-draft"), Sel("text", "Save draft"),
          Sel("class", "save-draft-button"), Sel("text", "Save as draft") >>
  ELSE << Sel("text", "Send to everyone now"), Sel("text", "Send to everyone now"),
          Sel("text", "Send to everyone now"), Sel("type", "submit"),
          Sel("text", "Publish now"), Sel("text", "Publish now"),
          Sel("testid", "publish"), Sel("text", "Publish"),
          Sel("class", "publish-button"), Sel("class", "primary"),
          Sel("class", "orange"), Sel("class", "submit") >>

MinOf(S) == CHOOSE x \in S : \A y \in S : x <= y

\* the first selector of the cascade that finds an element, and that element
Cascade(page, selectors) ==
  LET hit(j) == {i \in 1..Len(page) : Matches(selectors[j], page[i])}
      hits == {j \in 1..Len(selectors) : hit(j) # {}}
  IN IF hits = {} THEN None ELSE Some(page[MinOf(hit(MinOf(hits)))])

\* 4060-4068: the scan over all buttons
ScanMatches(isDraft, k) ==
  IF isDraft
  THEN Includes(ButtonText(k), "save") \/ Includes(ButtonText(k), "draft")
  ELSE \/ Includes(ButtonText(k), "send to everyone now")
       \/ Includes(ButtonText(k), "publish")
       \/ Includes(ButtonText(k), "continue")

ScanAllButtons(page, isDraft) ==
  LET hit == {i \in 1..Len(page) : ScanMatches(isDraft, page[i])}
  IN IF hit = {} THEN None ELSE Some(page[MinOf(hit)])

Pages ==
  UNION {{p \in [1..n -> ButtonKinds] : \A i, j \in 1..n : i # j => p[i] # p[j]}
         : n \in 0..MaxButtons}

\* 3946-4125: the Continue step and the terminal action on the page that
\* follows it; clicked collects every control clicked, located the steps
\* whose control was found; an exhausted Continue cascade throws inside the
\* try of 3948-3993 and is logged
PublishFunnel(page1, page2, isDraft) ==
  LET continueButton == Cascade(page1, ContinueSelectors)
      page == IF continueButton = None THEN page1 ELSE page2
      found == Cascade(page, ButtonSelectors(isDraft))
      actionButton == IF found # None THEN found ELSE ScanAllButtons(page, isDraft)
      clicked1 == IF continueButton = None THEN {} ELSE {continueButton[1]}
      located1 == IF continueButton = None THEN {} ELSE {"continue"}
  IN IF actionButton = None
     THEN [ok |-> FALSE, clicked |-> clicked1, located |-> located1]
     ELSE [ok |-> TRUE, clicked |-> clicked1 \cup {actionButton[1]},
           located |-> located1 \cup {"action"}]

\* every result the funnel can have, over the pages a browser may show: the
\* page after Continue is any page, and the same page when nothing was clicked
FunnelRuns(isDraft) ==
  {PublishFunnel(page1, page2, isDraft) :
     <<page1, page2>> \in {pp \in Pages \X Pages :
        Cascade(pp[1], ContinueSelectors) = None => pp[2] = pp[1]}}
DraftRuns == FunnelRuns(TRUE)
PublishRuns == FunnelRuns(FALSE)

----------------------------------------------------------------------------
(* createPost, substackService.js 3372-4251 *)

\* a guard that already refreshes a bundle exactly as old as the window
ShouldRefreshAuthAtLimit(session, t) ==
  IF session.userData = None THEN TRUE
  ELSE IF session.userData[1].authTokens = None THEN TRUE
  ELSE t - session.userData[1].authTokens[1].extractedAt >= FreshnessWindow

\* 3241-3252
ShouldRefreshAuth(session, t) ==
  IF session.userData = None THEN TRUE
  ELSE IF session.userData[1].authTokens = None THEN TRUE
  ELSE t - session.userData[1].authTokens[1].extractedAt > FreshnessWindow

\* what the browser meets before the funnel: the dashboard bounces to
\* sign-in, no publication / no subdomain is found, the editor, the title
\* field or the content editor is not located, or all are there
PostOutcomes == {"expired", "no_publication", "no_editor", "no_title",
                 "no_content", "ready"}

\* a text: its length and the length of its trim()
Text(len, trimmed) == [len |-> len, trimmed |-> trimmed]
Trim(text) == Text(text.trimmed, text.trimmed)
IsEmpty(text) == text.len = 0

\* the subdomains pages name: the user's publication, another publication
\* and three of the provider's own
Subdomains == {"pub", "other", "www", "support", "help"}

\* 3480-3491: the subdomains the link scan of createPost leaves out
NonUserSubdomains ==
  {"www", "support", "help", "blog", "newsletter", "substack", "app", "api",
   "cdn", "static"}

\* the page source of substack.com/home as createPost reads it: the
\* "subdomain" values inside the first "publications" array (3456-3464), the
\* subdomains of the https://x.substack.com URLs in document order (3476-3478)
\* and the subdomains the source names with /publish or as "subdomain"
\* (3495-3499)
HomePage(publications, links, own) ==
  [publications |-> publications, links |-> links, own |-> own]

\* the sequence without the elements of a set
RECURSIVE Without(_, _)
Without(seq, excluded) ==
  IF seq = <<>> THEN <<>>
  ELSE IF Head(seq) \in excluded THEN Without(Tail(seq), excluded)
  ELSE <<Head(seq)>> \o Without(Tail(seq), excluded)

\* 3455-3511: method 1 takes the first "subdomain" of the publications
\* metadata as it is; method 2 runs only if method 1 found nothing, filters
\* the linked subdomains, prefers one the page names as the user's own and
\* falls back to the first that is left
AutoDetectSubdomain(page) ==
  IF page.publications # <<>> THEN Head(page.publications)
  ELSE LET filteredSubdomains == Without(page.links, NonUserSubdomains)
           candidate == FirstNotIn(filteredSubdomains, Subdomains \ page.own)
       IN IF candidate # NullStr THEN candidate
          ELSE IF filteredSubdomains # <<>> THEN Head(filteredSubdomains)
          ELSE NullStr

\* 3425: the override of postData, else the value cached on the session
\* (null || undefined is falsy: auto-detection follows)
UserSubdomain(subdomain, session) ==
  IF subdomain # NullStr THEN subdomain
  ELSE IF session.userData = None THEN NullStr
  ELSE session.userData[1].subdomain

\* 3761-3934: the editor, the title field and the content editor are looked
\* for in this order, and the first that is not found throws
LocatedBefore(po) ==
  CASE po = "no_editor" -> {}
    [] po = "no_title" -> {"editor"}
    [] po = "no_content" -> {"editor", "title"}
    [] po = "ready" -> {"editor", "title", "content"}
    [] OTHER -> {}

CreatePostResult(act, st, drv, resp) ==
  [act |-> act, st |-> st, drv |-> drv, resp |-> resp]

CreatePost(act, st, drv, id, postData, t, ro, fo, po, funnel, page) ==
  LET r == EnsureLiveForPost(act, st, drv, id, t, ro)
      base == [Resp("createPost", id) EXCEPT !.called = TRUE,
                                            !.isDraft = postData.isDraft,
                                            !.titleLen = postData.title.len,
                                            !.contentLen = postData.content.len,
                                            !.requested = postData.subdomain]
      fail(resp, err) == [resp EXCEPT !.ok = FALSE, !.err = err]
  IN
  IF ~r.ok THEN CreatePostResult(r.act, r.st, r.drv, fail(base, r.err))
  ELSE IF r.act[id].status # "logged_in"
       THEN CreatePostResult(r.act, r.st, r.drv, fail(base, "invalid_state"))
  ELSE
  LET stale == ShouldRefreshAuth(r.act[id], t)
      f == IF stale
           THEN RefreshSessionAuth(r.act, r.st, id, t, fo)
           ELSE [act |-> r.act, st |-> r.st, ok |-> TRUE, err |-> "none"]
      checked == [base EXCEPT !.refresh = IF ~stale THEN "none"
                                          ELSE IF f.ok THEN "ok" ELSE "failed"]
      session == f.act[id]
      known == UserSubdomain(postData.subdomain, session)
      \* 3429-3553: substack.com/home is loaded only when nothing is known
      discovers == known = NullStr
      detected == IF discovers /\ po # "no_publication"
                  THEN AutoDetectSubdomain(page) ELSE NullStr
      userSubdomain == IF discovers THEN detected ELSE known
      \* 3514-3523: a detected subdomain is written to the live record and saved
      saves == detected # NullStr /\ session.userData # None
      s2 == IF saves
            THEN [session EXCEPT !.userData = Some([session.userData[1] EXCEPT
                                                      !.subdomain = detected]),
                                 !.driver.url = "home"]
            ELSE [session EXCEPT !.driver.url = "home"]
      act2 == [f.act EXCEPT ![id] = s2]
      st2 == IF saves THEN StoreSaveSession(f.st, id, Snapshot(s2), t) ELSE f.st
      resolved == [checked EXCEPT !.discovery = discovers,
                                  !.subdomain = userSubdomain]
  IN
  IF IsEmpty(postData.title) \/ IsEmpty(postData.content)
  THEN CreatePostResult(f.act, f.st, r.drv, fail(checked, "validation"))
  ELSE IF userSubdomain = NullStr
  THEN CreatePostResult([f.act EXCEPT ![id].driver.url = "home"], f.st, r.drv,
                        fail(resolved, "automation"))
  ELSE IF po = "expired"
  THEN CreatePostResult([act2 EXCEPT ![id].driver.url = "signin"], st2, r.drv,
                        fail(resolved, "automation"))
  ELSE IF po \in {"no_editor", "no_title", "no_content"}
  THEN CreatePostResult(act2, st2, r.drv,
                        [fail(resolved, "automation") EXCEPT
                           !.located = LocatedBefore(po)])
  ELSE IF ~funnel.ok
  THEN CreatePostResult(act2, st2, r.drv,
                        [fail(resolved, "automation") EXCEPT
                           !.clicked = funnel.clicked,
                           !.located = LocatedBefore(po) \cup funnel.located])
  ELSE CreatePostResult(act2, st2, r.drv,
                        [resolved EXCEPT !.clicked = funnel.clicked,
                                         !.located = LocatedBefore(po) \cup funnel.located])

\* 3399-3411: createPost reads a fresh bundle out of the browser when the
\* session gets past the status check with stale tokens and the refresh works
PostRefreshes(act, st, drv, id, t, ro, fo) ==
  LET r == EnsureLiveForPost(act, st, drv, id, t, ro) IN
  /\ r.ok
  /\ r.act[id].status = "logged_in"
  /\ ShouldRefreshAuth(r.act[id], t)
  /\ RefreshSessionAuth(r.act, r.st, id, t, fo).ok

----------------------------------------------------------------------------
(* POST /post, xApi.js 344-395 *)
\* a limit that would already refuse a title of MaxTitleLen characters
TitleAtLimitOrLonger(title) == title.len >= MaxTitleLen

TitleTooLong(title) == title.len > MaxTitleLen
ContentTooLong(content) == content.len > MaxContentLen

Rejected(title, content) ==
  \/ IsEmpty(title) \/ IsEmpty(content)
  \/ TitleTooLong(title) \/ ContentTooLong(content)

\* 370-375: the fields of the request body that reach createPost; a subdomain
\* in the body is not among them, so createPost sees its default, null (3421)
PostData(body) ==
  [title |-> Trim(body.title), content |-> Trim(body.content),
   isDraft |-> body.isDraft, subdomain |-> NullStr]

\* a home page on which the publication of the user is found at once
PlainHome == HomePage(<<"pub">>, <<>>, {})

\* the browser outcomes are drawn only where the request gets that far
PostRequest(id, body, page, draftRuns, publishRuns) ==
  LET postData == PostData(body)
      title == body.title
      content == body.content
      isDraft == body.isDraft
      blank == IsEmpty(postData.title) \/ IsEmpty(postData.content)
      noRun == [ok |-> FALSE, clicked |-> {}, located |-> {}]
  IN
  /\ UNCHANGED <<used, now, pending, writers, readable, driving>>
  /\ IF Rejected(title, content)
     THEN /\ UNCHANGED <<activeSessions, store, drivers, extracted>>
          /\ last' = [Fail("createPost", id, "validation") EXCEPT
                        !.isDraft = isDraft, !.titleLen = title.len,
                        !.contentLen = content.len,
                        !.requested = body.subdomain]
     ELSE \E ro \in RecoverChoices(id, {"ok", "nav_fail"}), fo \in {"ok", "nav_fail"},
             po \in (IF blank THEN {"ready"} ELSE PostOutcomes) :
          \E funnel \in (IF blank \/ po # "ready" THEN {noRun}
                          ELSE IF isDraft THEN draftRuns ELSE publishRuns) :
            LET c == CreatePost(activeSessions, store, drivers, id, postData, now,
                                ro, fo, po, funnel, page) IN
            /\ c.drv[id] <= MaxDrivers
            /\ activeSessions' = c.act
            /\ store' = c.st
            /\ drivers' = c.drv
            /\ extracted' =
                 IF PostRefreshes(activeSessions, store, drivers, id, now, ro, fo)
                 THEN [extracted EXCEPT ![id] = Some(ExtractAuthTokens(now))]
                 ELSE FreshBrowser(extracted, id,
                        EnsureLiveForPost(activeSessions, store, drivers, id, now, ro).flag)
            /\ last' = [c.resp EXCEPT !.titleLen = title.len,
                                      !.contentLen = content.len,
                                      !.requested = body.subdomain]

\* a request that names no subdomain, for a user whose home page names theirs
PostRoute(id, title, content, isDraft) ==
  PostRequest(id, [title |-> title, content |-> content, isDraft |-> isDraft,
                   subdomain |-> NullStr],
              PlainHome, DraftRuns, PublishRuns)

\* the texts requests carry: empty, blank, at the limit, one over it
Titles ==
  {Text(0, 0), Text(1, 0), Text(MaxTitleLen, MaxTitleLen),
   Text(MaxTitleLen + 1, MaxTitleLen + 1)}
Contents ==
  {Text(MaxContentLen, MaxContentLen),
   Text(MaxContentLen + 1, MaxContentLen + 1)}

----------------------------------------------------------------------------
(* Recovery split at its awaits (SpecConc).  Between the synchronous
   activeSessions.has check (2916, 2986) and the synchronous
   activeSessions.set (2960, 3162) lie the store read, Builder.build() and,
   for reconnect, the navigation and cookie restore: other requests run
   there.  The same two functions are what the opening block of
   initiateLogin, submitVerificationCode, waitForEmailVerification and
   createPost awaits. *)

RemoveAt(q, i) == [j \in 1..(Len(q) - 1) |-> IF j < i THEN q[j] ELSE q[j + 1]]

ReconnectBegin(id) ==
  /\ ~AlreadyActive(activeSessions, id)
  /\ Has(store, id)
  /\ store[id].status = "logged_in"
  /\ drivers[id] < MaxDrivers
  /\ drivers' = [drivers EXCEPT ![id] = @ + 1]
  /\ pending' = Append(pending, [id |-> id, persistentSession |-> store[id],
                                 url |-> "home"])
  /\ last' = Resp("reconnectBegin", id)
  /\ UNCHANGED <<activeSessions, store, used, now, extracted, writers, readable, driving>>

RecreateBegin(id) ==
  /\ ~AlreadyActive(activeSessions, id)
  /\ Has(store, id)
  /\ drivers[id] < MaxDrivers
  /\ drivers' = [drivers EXCEPT ![id] = @ + 1]
  /\ pending' = Append(pending, [id |-> id, persistentSession |-> store[id],
                                 url |-> "blank"])
  /\ last' = Resp("recreateBegin", id)
  /\ UNCHANGED <<activeSessions, store, used, now, extracted, writers, readable, driving>>

\* activeSessions.set replaces whatever record is there; the driver of a
\* replaced record keeps running
RecoverFinish(i) ==
  LET p == pending[i] IN
  /\ activeSessions' = Put(activeSessions, p.id,
                           RecoveredSession(p.persistentSession, p.url))
  /\ store' = StoreUpdateLastActive(store, p.id, now)
  /\ pending' = RemoveAt(pending, i)
  /\ extracted' = [extracted EXCEPT ![p.id] = None]
  /\ last' = [Resp("recoverFinish", p.id) EXCEPT !.flag = TRUE]
  /\ UNCHANGED <<drivers, used, now, writers, readable, driving>>

----------------------------------------------------------------------------
(* time and process restart *)
Tick ==
  /\ now < MaxClock
  /\ now' = now + 1
  /\ last' = Resp("tick", 0)
  /\ UNCHANGED <<activeSessions, store, drivers, used, pending, extracted,
                 writers, readable, driving>>

\* the process dies: the in-memory Map and every WebDriver handle are gone,
\* sessions.json stays
Restart ==
  /\ activeSessions' = EmptyMap
  /\ drivers' = [i \in Ids |-> 0]
  /\ pending' = <<>>
  /\ extracted' = [i \in Ids |-> None]
  /\ writers' = <<>>
  /\ driving' = [i \in Ids |-> 0]
  /\ last' = Resp("restart", 0)
  /\ UNCHANGED <<store, used, now, readable>>

----------------------------------------------------------------------------
Init ==
  /\ activeSessions = EmptyMap
  /\ store = EmptyMap
  /\ drivers = [i \in Ids |-> 0]
  /\ used = {}
  /\ now = 0
  /\ pending = <<>>
  /\ extracted = [i \in Ids |-> None]
  /\ writers = <<>>
  /\ readable = TRUE
  /\ driving = [i \in Ids |-> 0]
  /\ last = Resp("boot", 0)

\* the inputs of a wait are drawn only where the wait reads them
SeesHome(polls) == \E i \in 1..Len(polls) : polls[i] = "home"
TailChoices(polls) == IF SeesHome(polls) THEN {TRUE} ELSE BOOLEAN
FoundChoices(polls) == IF SeesHome(polls) THEN Found ELSE {FoundNone}

\* the waits of Spec: the deadline passes at once, or the one poll reads
\* an authenticated URL and returns or throws; SpecWait has every run of
\* polls
ShortWaits == {<<>>, <<"home">>, <<"home_throws">>}

Next ==
  \/ \E id \in Focus, b \in BOOLEAN : CreateSession(id, b)
  \/ \E id \in Focus : \E o \in RecoverChoices(id, RecoverOutcomes) : Reconnect(id, o)
  \/ \E id \in Focus : \E o \in RecoverChoices(id, {"ok", "build_fail"}) : Recreate(id, o)
  \/ \E id \in Focus : \E e \in Emails, ro \in RecoverChoices(id, {"ok", "build_fail"}),
        o \in LoginOutcomes, f \in Found : InitiateLogin(id, e, ro, o, f)
  \/ \E id \in Focus : \E ro \in RecoverChoices(id, {"ok", "build_fail"}),
        o \in VerifyOutcomes, f \in Found :
        SubmitVerificationCode(id, ro, o, f)
  \/ \E id \in Focus : \E ro \in RecoverChoices(id, {"ok", "build_fail"}),
        polls \in ShortWaits :
        \E tailOk \in TailChoices(polls), f \in FoundChoices(polls) :
          WaitForEmailVerification(id, ro, polls, tailOk, f)
  \/ \E id \in Focus, o \in {"ok", "nav_fail"} : Refresh(id, o)
  \/ \E id \in Focus, keep \in BOOLEAN : CloseSession(id, keep)
  \/ \E maxAge \in Times, maxPersistentAge \in Times, elapsed \in 0..1 :
        now + elapsed <= MaxClock /\ CleanupOldSessions(maxAge, maxPersistentAge, elapsed)
  \/ \E id \in Focus, status \in Statuses : UpdateSessionStatus(id, status, None)
  \/ Tick
  \/ Restart

Spec == Init /\ [][Next]_vars

\* requests for one id interleave; every browser interaction succeeds
NextConc ==
  \/ \E id \in Focus : CreateSession(id, TRUE)
  \/ \E id \in Focus, o \in {"signin", "home"} :
        InitiateLogin(id, "user@example.com", "ok", o, FoundAll)
  \/ \E id \in Focus : SubmitVerificationCode(id, "ok", "left", FoundAll)
  \/ \E id \in Focus : Reconnect(id, "ok")
  \/ \E id \in Focus : Recreate(id, "ok")
  \/ \E id \in Focus : ReconnectBegin(id)
  \/ \E id \in Focus : RecreateBegin(id)
  \/ \E i \in 1..Len(pending) : RecoverFinish(i)
  \/ \E id \in Focus : CloseSession(id, TRUE)
  \/ Tick
  \/ Restart

SpecConc == Init /\ [][NextConc]_vars

\* logging in and posting
NextPost ==
  \/ \E id \in Focus : CreateSession(id, TRUE)
  \/ \E id \in Focus, o \in {"signin", "home"}, f \in Found :
        InitiateLogin(id, "user@example.com", "ok", o, f)
  \/ \E id \in Focus, f \in Found : SubmitVerificationCode(id, "ok", "left", f)
  \/ \E id \in Focus, title \in Titles, content \in Contents, isDraft \in BOOLEAN :
        PostRoute(id, title, content, isDraft)
  \/ Restart

SpecPost == Init /\ [][NextPost]_vars

\* logging in by the email link
NextWait ==
  \/ \E id \in Focus : CreateSession(id, TRUE)
  \/ \E id \in Focus, e \in Emails, o \in {"locate_fail", "signin", "home"} :
        InitiateLogin(id, e, "ok", o, FoundAll)
  \/ \E id \in Focus : \E ro \in RecoverChoices(id, {"ok", "build_fail"}),
        polls \in PollRuns :
        \E tailOk \in TailChoices(polls), f \in FoundChoices(polls) :
          WaitForEmailVerification(id, ro, polls, tailOk, f)
  \/ \E id \in Focus, status \in Statuses : UpdateSessionStatus(id, status, None)
  \/ \E id \in Focus : CloseSession(id, TRUE)
  \/ Tick
  \/ Restart

SpecWait == Init /\ [][NextWait]_vars

\* the sweep over several sessions
NextSweep ==
  \/ \E id \in Sweep : CreateSession(id, TRUE)
  \/ \E id \in Sweep : Recreate(id, "ok")
  \/ \E id \in Sweep, keep \in BOOLEAN : CloseSession(id, keep)
  \/ \E maxAge \in SweepThresholds, maxPersistentAge \in SweepThresholds,
        elapsed \in 0..MaxSweepTime :
        CleanupOldSessions(maxAge, maxPersistentAge, elapsed)
  \/ Tick
  \/ Restart

SpecSweep == Init /\ [][NextSweep]_vars

----------------------------------------------------------------------------
(* Properties *)

\* what getSessionStatus answers for id in the current state
StatusNow(id) == GetSessionStatus(activeSessions, store, id)

\* C1: right after a successful createSession, getSessionStatus for the
\* returned id reports that the session exists, has status "created" and
\* is active.
C1_CreatedSessionIsActive ==
  (last.op = "createSession" /\ last.ok) =>
     /\ StatusNow(last.id).exists
     /\ StatusNow(last.id).status = "created"
     /\ StatusNow(last.id).isActive

\* a createSession has just answered with a new id
C1_Witness ==
  /\ last.op = "createSession" /\ last.ok
  /\ last.id \in Focus
  /\ Has(activeSessions, last.id) /\ Has(store, last.id)

\* the status of id is the same after the step: on the live record when
\* there was one, in the store when it held one, and a live record the
\* step registers carries the status the session had
StatusKept(id) ==
  /\ Has(activeSessions, id) =>
       Has(activeSessions', id) /\
       activeSessions'[id].status = activeSessions[id].status
  /\ Has(store, id) =>
       Has(store', id) /\ store'[id].status = store[id].status
  /\ Has(activeSessions', id) =>
       activeSessions'[id].status = StatusNow(id).status

\* submitVerificationCode answers for a session that exists with a status
\* other than awaiting_verification
SubmitOutsideAwaiting(id) ==
  /\ last'.op = "submitVerificationCode" /\ last'.id = id
  /\ StatusNow(id).exists
  /\ StatusNow(id).status # "awaiting_verification"

C3_LoggedInNeedsReconnection ==
  [][\A id \in Ids :
       (/\ last'.op = "restart"
        /\ Has(activeSessions, id)
        /\ activeSessions[id].status = "logged_in"
        /\ Has(store, id)) =>
          GetSessionStatus(activeSessions', store', id).needsReconnection]_vars

\* C4: reconnectSession and recreateWebDriverSession called for a session
\* that has a live handle succeed, report reconnected/recreated = false,
\* start no browser and leave the registry and the store as they were.
C4_RecoveryIdempotent ==
  [][\A id \in Ids :
       (/\ last'.op \in {"reconnectSession", "recreateWebDriverSession"}
        /\ last'.id = id
        /\ Has(activeSessions, id)) =>
          /\ last'.ok
          /\ ~last'.flag
          /\ UNCHANGED <<activeSessions, store, drivers>>]_vars

\* reconnectSession has just answered for a logged_in session that was live
C4_Witness ==
  /\ last.op = "reconnectSession"
  /\ last.ok /\ ~last.flag
  /\ Has(activeSessions, last.id)
  /\ Has(store, last.id) /\ store[last.id].status = "logged_in"
  /\ drivers[last.id] = 1

\* C5 as stated: under every interleaving of requests for one session id,
\* at most one browser is running for that id.
C5_OneBrowserPerSession ==
  \A id \in Ids : drivers[id] <= 1

\* C6: an initiateLogin that ends on the sign-in path leaves the store
\* record with status awaiting_verification and the email of the request; a
\* submitVerificationCode whose post-submit URL has left the sign-in path
\* leaves status logged_in in the registry and in the store and returns a
\* credential whose payload has provider "substack".
C6_LoginScenario ==
  /\ (last.op = "initiateLogin" /\ last.ok /\ last.status = "awaiting_verification") =>
        /\ Has(store, last.id)
        /\ store[last.id].status = "awaiting_verification"
        /\ store[last.id].email = last.email
        /\ last.email \in Emails
  /\ (last.op = "submitVerificationCode" /\ last.ok) =>
        /\ Has(activeSessions, last.id)
        /\ activeSessions[last.id].status = "logged_in"
        /\ Has(store, last.id)
        /\ store[last.id].status = "logged_in"
        /\ last.token # None
        /\ last.token[1].provider = "substack"

\* the code has just been accepted for the session that asked with its email
C6_Witness ==
  /\ last.op = "submitVerificationCode" /\ last.ok
  /\ Has(store, last.id)
  /\ store[last.id].status = "logged_in"
  /\ store[last.id].email \in Emails
  /\ last.token # None

\* cleanupOldSessions(0, 0) has just run
SweptAtZero ==
  last.op = "cleanupOldSessions" /\ last.maxAge = 0 /\ last.maxPersistentAge = 0

\* C7 as stated: cleanupOldSessions(0, 0) closes every live handle and
\* deletes every persisted record, sessions of age exactly 0 included.
C7_SweepLeavesNothing ==
  SweptAtZero => activeSessions = EmptyMap /\ store = EmptyMap

\* C7 amended: cleanupOldSessions(0, 0) closes every live handle, and
\* deletes the persisted record, of a session created before the clock tick
\* at which the sweep starts (age > 0), and deletes every persisted record
\* created before the tick at which the store is swept; a session created at
\* the tick at which the sweep starts (age exactly 0) keeps its live handle,
\* and it keeps its persisted record when the clock has not moved on by the
\* time the store is swept.
C7_SweepSparesAgeZero ==
  [][(last'.op = "cleanupOldSessions" /\ last'.maxAge = 0
        /\ last'.maxPersistentAge = 0) =>
       /\ \A id \in DOMAIN activeSessions :
            IF now - GetTime(activeSessions[id].createdAt) > 0
            THEN ~Has(activeSessions', id) /\ ~Has(store', id) /\ drivers'[id] = 0
            ELSE /\ Has(activeSessions', id)
                 /\ activeSessions'[id] = activeSessions[id]
                 /\ drivers'[id] = drivers[id]
       /\ \A id \in DOMAIN store :
            IF now' - GetTime(store[id].createdAt) > 0
            THEN ~Has(store', id)
            ELSE Has(store', id) /\ store'[id] = store[id]]_vars

\* the sweep has closed and deleted an older session and spared one of age 0
C7_Witness ==
  /\ SweptAtZero
  /\ \E kept \in Sweep :
       /\ Has(activeSessions, kept) /\ Has(store, kept)
       /\ now - GetTime(activeSessions[kept].createdAt) = 0
  /\ \E gone \in used : ~Has(activeSessions, gone) /\ ~Has(store, gone)

\* C8: a create-post request whose title is longer than MaxTitleLen or whose
\* content is longer than MaxContentLen is answered with a validation error
\* before createPost is called, and the registry, the store and the browsers
\* are as they were; a request whose title and content are not empty and
\* reach at most (so also exactly) these lengths gets to createPost.
C8_LengthValidation ==
  [][last'.op = "createPost" =>
       /\ (last'.titleLen > MaxTitleLen \/ last'.contentLen > MaxContentLen) =>
             /\ ~last'.ok
             /\ last'.err = "validation"
             /\ ~last'.called
             /\ UNCHANGED <<activeSessions, store, drivers>>
       /\ (/\ last'.titleLen \in 1..MaxTitleLen
           /\ last'.contentLen \in 1..MaxContentLen) => last'.called]_vars

\* a request with a title one character over the limit has just been
\* refused for a session that is logged in and live
C8_Witness ==
  /\ last.op = "createPost"
  /\ last.titleLen = MaxTitleLen + 1
  /\ last.contentLen = MaxContentLen
  /\ ~last.called
  /\ \E id \in Focus : Has(activeSessions, id) /\ activeSessions[id].status = "logged_in"

\* a title and a content at the limits have just been posted
C8_AtLimitPosted ==
  /\ last.op = "createPost"
  /\ last.titleLen = MaxTitleLen
  /\ last.contentLen = MaxContentLen
  /\ last.called /\ last.ok

\* the controls that publish to the audience
PublishControls == {"send_now", "publish_now"}

\* C9 as stated: createPost with isDraft = true that completes without
\* error reports success and isDraft = true and has clicked no
\* publish-to-audience control at any step of the funnel.
C9_DraftNeverPublishes ==
  (last.op = "createPost" /\ last.called /\ last.isDraft /\ last.ok) =>
     last.clicked \cap PublishControls = {}

\* the order created, awaiting_verification, logged_in
Rank(status) ==
  CASE status = "created" -> 1
    [] status = "awaiting_verification" -> 2
    [] status = "logged_in" -> 3
    [] OTHER -> 0

\* a move the stated order allows
Forward(before, after) ==
  /\ Rank(after) >= Rank(before)
  /\ (after = "logged_in" /\ before # "logged_in") => before = "awaiting_verification"

-----------------------------------------------------------------------------
\* the bundles a persisted record holds: the top-level one and the one inside
\* the user data
PersistedBundles(record) ==
  {record.authTokens} \cup
    (IF record.userData # None THEN {record.userData[1].authTokens} ELSE {})

\* C11 as stated: whenever a live browser is discarded (closeSession that
\* keeps the record, the sweep, a restart), the persisted authTokens of the
\* session are the bundle most recently extracted from that browser.
C11_DiscardKeepsLatestBundle ==
  [][\A id \in Ids :
       (/\ Has(activeSessions, id) /\ ~Has(activeSessions', id)
        /\ extracted[id] # None
        /\ Has(store', id)) =>
          extracted[id] \in PersistedBundles(store'[id])]_vars

-----------------------------------------------------------------------------
(* SessionStore called by several requests at once (src/unnamed/part_008);
   every method awaits loadSessions, changes the loaded object, and awaits
   saveSessions; nothing orders two calls *)

\* writes of the sessions file that have been started and have not landed
MaxWriters == 2

\* a loadSessions that hands back what the file last held
LoadSessionsStale(st, canRead) == st

\* 39-47: the parsed file, or {} when reading or parsing throws
LoadSessions(st, canRead) == IF canRead THEN st ELSE EmptyMap

\* the sessionData objects the callers of this specification hand over
StoreData(status, t) ==
  [status |-> status, email |-> NullStr, createdAt |-> DateAt(t),
   userData |-> None, authTokens |-> None]

\* 53-59 up to the await of fs.writeFile: the whole object is to be written
StartWrite(op, id, sessions) ==
  /\ Len(writers) < MaxWriters
  /\ writers' = Append(writers, [op |-> op, id |-> id, sessions |-> sessions])
  /\ last' = Resp("loadSessions", id)
  /\ UNCHANGED <<activeSessions, store, drivers, used, now, pending, extracted,
                 readable, driving>>

\* a method that returns without writing
NoWrite(op, id) ==
  /\ last' = Resp(op, id)
  /\ UNCHANGED <<activeSessions, store, drivers, used, now, pending, extracted,
                 writers, readable, driving>>

\* 66-81
SaveSessionBegin(id, status) ==
  LET sessions == LoadSessions(store, readable) IN
  StartWrite("saveSession", id,
             StoreSaveSession(sessions, id, StoreData(status, now), now))

\* 106-109
DeleteSessionBegin(id) ==
  LET sessions == LoadSessions(store, readable) IN
  StartWrite("deleteSession", id, StoreDeleteSession(sessions, id))

\* 141-147: nothing is written for an id the loaded object does not hold
UpdateLastActiveBegin(id) ==
  LET sessions == LoadSessions(store, readable) IN
  IF Has(sessions, id)
  THEN StartWrite("updateLastActive", id, StoreUpdateLastActive(sessions, id, now))
  ELSE NoWrite("updateLastActive", id)

\* 116-135: nothing is written when no record has expired
CleanupExpiredBegin(maxAgeMs) ==
  LET sessions == LoadSessions(store, readable)
      kept == StoreCleanupExpired(sessions, maxAgeMs, now) IN
  IF kept # sessions
  THEN StartWrite("cleanupExpiredSessions", 0, kept)
  ELSE NoWrite("cleanupExpiredSessions", 0)

\* 55-58: fs.writeFile resolves, and the file holds what this call loaded
\* and changed; or it rejects, which is logged and not thrown. The writes of
\* two calls land in either order.
WriteLands(i, written) ==
  /\ i \in 1..Len(writers)
  /\ store' = IF written THEN writers[i].sessions ELSE store
  /\ readable' = (written \/ readable)
  /\ writers' = [j \in 1..(Len(writers) - 1) |->
                   IF j < i THEN writers[j] ELSE writers[j + 1]]
  /\ last' = [Resp(writers[i].op, writers[i].id) EXCEPT !.flag = written]
  /\ UNCHANGED <<activeSessions, drivers, used, now, pending, extracted, driving>>

\* 89-92
GetSession(id) ==
  LET sessions == LoadSessions(store, readable) IN
  /\ last' = [Resp("getSession", id) EXCEPT
                !.flag = Has(sessions, id),
                !.status = IF Has(sessions, id) THEN sessions[id].status
                           ELSE NullStr]
  /\ UNCHANGED <<activeSessions, store, drivers, used, now, pending, extracted,
                 writers, readable, driving>>

\* 98-100
GetAllSessions ==
  /\ last' = [Resp("getAllSessions", 0) EXCEPT
                !.clicked = DOMAIN LoadSessions(store, readable)]
  /\ UNCHANGED <<activeSessions, store, drivers, used, now, pending, extracted,
                 writers, readable, driving>>

\* the sessions file is truncated or damaged from outside the process
Corrupt ==
  /\ readable
  /\ readable' = FALSE
  /\ last' = Resp("corrupt", 0)
  /\ UNCHANGED <<activeSessions, store, drivers, used, now, pending, extracted,
                 writers, driving>>

NextStore ==
  \/ \E id \in Ids : SaveSessionBegin(id, "logged_in")
  \/ \E id \in Ids : DeleteSessionBegin(id)
  \/ \E id \in Ids : UpdateLastActiveBegin(id)
  \/ \E maxAgeMs \in Times : CleanupExpiredBegin(maxAgeMs)
  \/ \E i \in 1..MaxWriters, written \in BOOLEAN : WriteLands(i, written)
  \/ \E id \in Ids : GetSession(id)
  \/ GetAllSessions
  \/ Corrupt
  \/ Tick

SpecStore == Init /\ [][NextStore]_vars

\* C12 as stated: no update to the store is lost under concurrency; when
\* the write of a mutation for one session id lands, the record of every
\* other id, written by a mutation that has completed, is still what that
\* mutation made it.
C12_NoUpdateLost ==
  [][(last'.op \in {"saveSession", "deleteSession", "updateLastActive"}
        /\ readable /\ readable') =>
       \A other \in Ids \ {last'.id} :
         /\ Has(store', other) <=> Has(store, other)
         /\ Has(store, other) => store'[other] = store[other]]_vars

-----------------------------------------------------------------------------
(* Requests for one session that overlap: waitForEmailVerification holds
   the driver of a registered session across its awaits (2839-2892), and
   nothing keeps another request, or the sweep, from the same session *)

\* waits that can be in flight for one session
MaxInFlight == 2

\* 2813, 2839: the session is looked up and its driver taken
WaitBegin(id) ==
  /\ Has(activeSessions, id)
  /\ driving[id] < MaxInFlight
  /\ driving' = [driving EXCEPT ![id] = @ + 1]
  /\ last' = [Resp("waitForEmailVerification", id) EXCEPT !.status = "polling"]
  /\ UNCHANGED <<activeSessions, store, drivers, used, now, pending, extracted,
                 writers, readable>>

\* 2849-2905: the polls and the return; on a browser that was quit while the
\* wait held it every poll throws, and so does the read after the deadline
WaitEnd(id, polls, tailOk, found) ==
  /\ driving[id] > 0
  /\ driving' = [driving EXCEPT ![id] = @ - 1]
  /\ IF Has(activeSessions, id)
     THEN \E lag \in MintLags(activeSessions[id], polls) :
          LET w == WaitSteps(activeSessions, extracted, id, polls, tailOk,
                             found, now, lag) IN
          /\ activeSessions' = w.act
          /\ extracted' = w.ex
          /\ last' = w.resp
     ELSE /\ UNCHANGED <<activeSessions, extracted>>
          /\ last' = Fail("waitForEmailVerification", id, "automation")
  /\ UNCHANGED <<store, drivers, used, now, pending, writers, readable>>

\* requests on registered sessions only: a session that was closed stays closed
NextDrive ==
  \/ \E id \in Focus : CreateSession(id, TRUE)
  \/ \E id \in Focus, e \in Emails, o \in {"signin", "home"} :
        Has(activeSessions, id) /\ InitiateLogin(id, e, "ok", o, FoundAll)
  \/ \E id \in Focus : WaitBegin(id)
  \/ \E id \in Focus, polls \in PollRuns :
        \E tailOk \in TailChoices(polls), f \in FoundChoices(polls) :
          WaitEnd(id, polls, tailOk, f)
  \/ \E id \in Focus, keep \in BOOLEAN : CloseSession(id, keep)
  \/ \E maxAge \in Times : CleanupOldSessions(maxAge, MaxClock, 0)
  \/ Tick

SpecDrive == Init /\ [][NextDrive]_vars

\* C13 as stated: access to a live browser handle is serialized per session
\* id; no two operations hold the browser of one session at a time, and no
\* browser is closed while an operation holds it.
C13_SerializedPerId ==
  \A id \in Ids :
    /\ driving[id] <= 1
    /\ driving[id] > 0 => Has(activeSessions, id)

-----------------------------------------------------------------------------
\* C14 as stated: when waitForEmailVerification returns
\* verification_timeout, the status of the session in the live registry and
\* in the store is what it was when the wait started, whatever the polls
\* read and whichever of them threw; for a session that the wait had to
\* register first, the registry holds the status the store had.
C14_TimeoutKeepsStatus ==
  [][\A id \in Ids :
       (last'.op = "waitForEmailVerification" /\ last'.id = id
          /\ last'.status = "verification_timeout") =>
         /\ Has(activeSessions', id)
         /\ Has(store, id) <=> Has(store', id)
         /\ Has(store, id) => store'[id].status = store[id].status
         /\ IF Has(activeSessions, id)
            THEN activeSessions'[id].status = activeSessions[id].status
            ELSE activeSessions'[id].status = store[id].status]_vars

-----------------------------------------------------------------------------
\* C15 as stated: an operation rejected with an invalid-state error
\* (submitVerificationCode outside awaiting_verification, createPost or
\* reconnectSession on a session that is not logged_in) changes nothing:
\* not the registry, not the browsers that run, not the store record.
C15_RejectionMutatesNothing ==
  [][(/\ last'.op \in {"submitVerificationCode", "createPost", "reconnectSession"}
      /\ last'.err = "invalid_state") =>
        UNCHANGED <<activeSessions, store, drivers>>]_vars

-----------------------------------------------------------------------------
\* the response of an operation of the service on one session
ServedSession ==
  \/ last.op \in {"initiateLogin", "submitVerificationCode",
                  "waitForEmailVerification", "reconnectSession"}
  \/ last.op = "createPost" /\ last.called

\* C16 as stated: an operation fails with session-not-found exactly when the
\* session id is absent from both the live registry and the store, and then
\* nothing is created in either; a session the store holds, whatever its
\* status, is never reported as not found.
C16_NotFoundIffAbsent ==
  [][ServedSession' =>
       /\ last'.err = "not_found" <=>
            (~Has(activeSessions, last'.id) /\ ~Has(store, last'.id))
       /\ last'.err = "not_found" => UNCHANGED <<activeSessions, store, drivers>>]_vars

-----------------------------------------------------------------------------
\* C17 as stated: the email of a session is set by the first initiateLogin
\* that submits one and never changes afterwards, in the live record or in
\* the persisted one.
C17_EmailSetOnce ==
  [][\A id \in Ids :
       /\ (/\ Has(activeSessions, id) /\ Has(activeSessions', id)
           /\ activeSessions[id].email # NullStr) =>
             activeSessions'[id].email = activeSessions[id].email
       /\ (Has(store, id) /\ Has(store', id) /\ store[id].email # NullStr) =>
             store'[id].email = store[id].email]_vars

-----------------------------------------------------------------------------
\* C18: the createdAt instant of a session is the clock reading at
\* createSession; no later operation changes it in the live record or in the
\* store, and where both hold the session they hold the same instant.
C18_CreatedAtFixed ==
  [][\A id \in Ids :
       /\ (Has(activeSessions, id) /\ Has(activeSessions', id)) =>
             GetTime(activeSessions'[id].createdAt) =
               GetTime(activeSessions[id].createdAt)
       /\ (Has(store, id) /\ Has(store', id)) =>
             GetTime(NewDate(store'[id].createdAt)) =
               GetTime(NewDate(store[id].createdAt))
       /\ (Has(activeSessions', id) /\ Has(store', id)) =>
             GetTime(activeSessions'[id].createdAt) =
               GetTime(NewDate(store'[id].createdAt))
       /\ (~Has(activeSessions, id) /\ ~Has(store, id) /\ Has(activeSessions', id)) =>
             /\ last'.op = "createSession"
             /\ activeSessions'[id].createdAt = DateAt(now)]_vars

\* a live session created at an earlier clock reading has just been saved
\* again
C18_Witness ==
  /\ last.op \in {"initiateLogin", "submitVerificationCode", "refreshSessionAuth",
                  "updateSessionStatus"}
  /\ last.ok
  /\ Has(activeSessions, last.id) /\ Has(store, last.id)
  /\ GetTime(activeSessions[last.id].createdAt) < now
  /\ store[last.id].lastActiveAt = now
  /\ store[last.id].createdAt = ToJSON(activeSessions[last.id].createdAt)

-----------------------------------------------------------------------------
\* the properties of a persisted record
StoredFields ==
  {"id", "status", "email", "createdAt", "lastActiveAt", "userData", "authTokens"}

\* C19: no record of the persistent store holds the live browser handle;
\* whatever object saveSession is handed, the registry record with its driver
\* included, the stored record has the properties id, status, email,
\* createdAt, lastActiveAt, userData and authTokens and no other.
C19_StoreHoldsNoHandle ==
  \A id \in DOMAIN store : DOMAIN store[id] = StoredFields

\* initiateLogin has just handed the registry record, driver and all, to
\* saveSession
C19_Witness ==
  /\ last.op = "initiateLogin" /\ last.ok
  /\ last.status = "awaiting_verification"
  /\ Has(activeSessions, last.id)
  /\ "driver" \in DOMAIN activeSessions[last.id]
  /\ "driver" \in DOMAIN Snapshot(activeSessions[last.id])
  /\ Has(store, last.id)
  /\ store[last.id].status = "awaiting_verification"
  /\ store[last.id].lastActiveAt = now

-----------------------------------------------------------------------------
\* the operations of the store
StoreOps ==
  {"loadSessions", "saveSession", "deleteSession", "updateLastActive",
   "cleanupExpiredSessions", "getSession", "getAllSessions"}

\* C20: while the sessions file is unreadable or not valid JSON, every read
\* of the store yields the empty map: getSession returns null for every id,
\* getAllSessions returns no session, saveSession and deleteSession write
\* what they make of the empty map, updateLastActive and
\* cleanupExpiredSessions find nothing to write; and no operation of the
\* store throws.
C20_UnreadableReadsEmpty ==
  [][/\ last'.op \in StoreOps => last'.ok /\ last'.err = "none"
     /\ ~readable =>
          /\ last'.op = "getSession" => ~last'.flag /\ last'.status = NullStr
          /\ last'.op = "getAllSessions" => last'.clicked = {}
          /\ (last'.op = "loadSessions" /\ Len(writers') > Len(writers)) =>
               LET w == writers'[Len(writers')] IN
               /\ w.op \in {"saveSession", "deleteSession"}
               /\ w.op = "saveSession" => DOMAIN w.sessions = {w.id}
               /\ w.op = "deleteSession" => w.sessions = EmptyMap]_vars

\* getSession has just answered null for a session whose record the file
\* held before it became unreadable
C20_Witness ==
  /\ ~readable
  /\ last.op = "getSession" /\ ~last.flag
  /\ Has(store, last.id)

-----------------------------------------------------------------------------
(* reconnectSession step by step (2994-3178): the cookies of the persisted
   user data are put into the fresh browser, the local storage is put back,
   the page is refreshed and /home is visited to see whether the session
   still signs in *)

\* the domains tried for one cookie (3053)
DomainTries == 3

\* a cookie as a manual update of the user data may hold it: an object with
\* the value and its metadata
CookieObject(name) == <<"object", [value |-> name, domain |-> ".substack.com"]>>
ManualUserData(t) ==
  [email |-> NullStr, subdomain |-> NullStr,
   authTokens |-> Some([extractedAt |-> t,
                        cookies |-> [name \in CookieNames |-> CookieObject(name)]])]

\* a restore that knows the object format only: the value property of a
\* string is undefined
CookieValueProperty(cookieData) ==
  IF cookieData[1] = "object" THEN cookieData[2].value ELSE "undefined"

\* 3041-3042
CookieValue(cookieData) ==
  IF cookieData[1] = "string" THEN cookieData[2] ELSE cookieData[2].value

\* 3029: persistentSession.userData?.authTokens?.cookies
PersistedCookies(persistentSession) ==
  IF persistentSession.userData = None THEN EmptyMap
  ELSE IF persistentSession.userData[1].authTokens = None THEN EmptyMap
  ELSE persistentSession.userData[1].authTokens[1].cookies

\* 3036-3105: accepts[name] is the first of the domains on which addCookie
\* takes the cookie, 0 when it throws on all of them; offered are the
\* name/value pairs handed to addCookie, jar what the browser then holds
RestoreCookies(cookies, accepts) ==
  [offered |-> {<<name, CookieValue(cookies[name])>> : name \in DOMAIN cookies},
   jar |-> [name \in {n \in DOMAIN cookies : accepts[n] > 0} |->
              CookieValue(cookies[name])]]

\* the provider signs a browser in on the session cookie it issued, while
\* the session is still good on its side
ProviderAccepts(jar, good) ==
  good /\ Has(jar, "substack.sid") /\ jar["substack.sid"] = "substack.sid"

\* 3131-3150: where the visit to /home ends, or "throws"
VerifyNavigation(jar, good, throws) ==
  IF throws THEN "throws"
  ELSE IF ProviderAccepts(jar, good) THEN "home" ELSE "signin"

\* o: how build, the first get and the refresh go (3019-3025, 3127)
\* a reconnect that gives up when the verification ends on the sign-in page
\* or throws
AfterVerificationStrict(o, homeUrl) ==
  IF o # "ok" THEN o
  ELSE IF homeUrl \in {"signin", "throws"} THEN "nav_fail" ELSE "ok"

\* 3131-3150: a bounce to sign-in is only logged (3139-3143) and an error of
\* the verification is caught (3148-3150); errors of build(), driver.get and
\* refresh (3019-3025, 3127) leave the function
AfterVerification(o, homeUrl) ==
  IF o # "ok" THEN o
  ELSE IF homeUrl = "signin" THEN "bounced" ELSE "ok"

ReconnectRun(id, o, accepts, lsOk, good, throws) ==
  LET cookies == IF Has(store, id) THEN PersistedCookies(store[id]) ELSE EmptyMap
      restored == RestoreCookies(cookies, accepts)
      homeUrl == VerifyNavigation(restored.jar, good, throws)
      outcome == AfterVerification(o, homeUrl)
      r == ReconnectSession(activeSessions, store, drivers, id, now, outcome)
      restoring == ~Has(activeSessions, id) /\ Has(store, id)
                     /\ store[id].status = "logged_in" /\ o # "build_fail"
  IN
  /\ r.drv[id] <= MaxDrivers
  /\ activeSessions' = r.act
  /\ store' = r.st
  /\ drivers' = r.drv
  /\ extracted' = FreshBrowser(extracted, id, r.flag)
  /\ last' = [Resp("reconnectSession", id) EXCEPT
                !.ok = r.ok, !.err = r.err, !.flag = r.flag,
                !.offered = IF restoring THEN restored.offered ELSE {},
                !.restore = IF restoring
                            THEN Some([jar |-> restored.jar, good |-> good,
                                       localStorage |-> lsOk, homeUrl |-> homeUrl,
                                       navigation |-> o])
                            ELSE None]
  /\ UNCHANGED <<used, now, pending, writers, readable, driving>>

Accepts == [CookieNames -> {0, 1, DomainTries}]

NextReconnect ==
  \/ \E id \in Focus : CreateSession(id, TRUE)
  \/ \E id \in Focus, f \in Found :
        InitiateLogin(id, "user@example.com", "ok", "signin", f)
  \/ \E id \in Focus, f \in Found : SubmitVerificationCode(id, "ok", "left", f)
  \/ \E id \in Focus, status \in {"logged_in", "created"}, manual \in BOOLEAN :
        UpdateSessionStatus(id, status,
                            IF manual THEN Some(ManualUserData(now)) ELSE None)
  \/ \E id \in Focus : CloseSession(id, TRUE)
  \/ \E id \in Focus, o \in {"ok", "build_fail", "nav_fail"}, accepts \in Accepts,
        lsOk \in BOOLEAN, good \in BOOLEAN, throws \in BOOLEAN :
        ReconnectRun(id, o, accepts, lsOk, good, throws)
  \/ Tick
  \/ Restart

SpecReconnect == Init /\ [][NextReconnect]_vars

-----------------------------------------------------------------------------
\* the controls createPost works through
PostControls == {"editor", "title", "content", "continue", "action"}

\* C22 as stated: a createPost that returns success has located the editor,
\* the title field, the content editor, the Continue control and the
\* terminal publish/save control; an exhausted selector cascade at any of
\* them raises an error.
C22_SuccessLocatedAll ==
  (last.op = "createPost" /\ last.called /\ last.ok) => last.located = PostControls

-----------------------------------------------------------------------------
\* C23 as stated: closeSession returns true only when a session was closed
\* or deleted, and false for an id that is in neither the live registry nor
\* the store (which DELETE /session/:sessionId reports as 404).
C23_CloseReportsWhatItDid ==
  [][last'.op = "closeSession" =>
       /\ last'.ok => (Has(activeSessions, last'.id) \/ Has(store, last'.id))
       /\ last'.ok => (activeSessions' # activeSessions \/ store' # store)
       /\ (~Has(activeSessions, last'.id) /\ ~Has(store, last'.id)) => ~last'.ok]_vars

-----------------------------------------------------------------------------
\* the age of a session whose record holds createdAt, at clock reading t
AgeAt(record, t) == t - GetTime(NewDate(record.createdAt))

\* a sweep has just run with these thresholds
Swept(maxAge, maxPersistentAge) ==
  /\ last'.op = "cleanupOldSessions"
  /\ last'.maxAge = maxAge /\ last'.maxPersistentAge = maxPersistentAge

\* C24 as stated: after cleanupOldSessions(maxAge, maxPersistentAge) every
\* session that was live with age above maxAge has no live handle, and its
\* persisted record is kept if and only if its age is below
\* maxPersistentAge; live sessions of age at most maxAge keep their handle;
\* no persisted record of age above maxPersistentAge remains. The age is
\* now minus createdAt at the clock reading of the sweep.
C24_SweepByThresholds ==
  [][\A maxAge \in SweepThresholds, maxPersistentAge \in SweepThresholds :
       Swept(maxAge, maxPersistentAge) =>
         /\ \A id \in DOMAIN activeSessions :
              IF AgeAt(activeSessions[id], now) > maxAge
              THEN /\ ~Has(activeSessions', id)
                   /\ Has(store, id) =>
                        (Has(store', id) <=>
                           AgeAt(activeSessions[id], now) < maxPersistentAge)
              ELSE Has(activeSessions', id)
         /\ \A id \in DOMAIN store :
              AgeAt(store[id], now) > maxPersistentAge => ~Has(store', id)]_vars

\* C24 amended: as above, except that the store is swept at its own, later
\* clock reading: the persisted record of a session that was live with age
\* above maxAge is kept if and only if its age is below maxPersistentAge
\* when the sweep starts and still at most maxPersistentAge when the store
\* is swept.
C24_SweepByThresholdsAndClock ==
  [][\A maxAge \in SweepThresholds, maxPersistentAge \in SweepThresholds :
       Swept(maxAge, maxPersistentAge) =>
         /\ \A id \in DOMAIN activeSessions :
              IF AgeAt(activeSessions[id], now) > maxAge
              THEN /\ ~Has(activeSessions', id)
                   /\ drivers'[id] = 0
                   /\ Has(store, id) =>
                        (Has(store', id) <=>
                           /\ AgeAt(activeSessions[id], now) < maxPersistentAge
                           /\ AgeAt(activeSessions[id], now') <= maxPersistentAge)
              ELSE /\ Has(activeSessions', id)
                   /\ activeSessions'[id] = activeSessions[id]
         /\ \A id \in DOMAIN store :
              AgeAt(store[id], now) > maxPersistentAge => ~Has(store', id)
         /\ \A id \in DOMAIN store' : store'[id] = store[id]]_vars

\* a sweep has closed a session older than maxAge and kept its record, which
\* is younger than maxPersistentAge, and has left a younger session alone
C24_Witness ==
  /\ last.op = "cleanupOldSessions"
  /\ last.maxAge < last.maxPersistentAge
  /\ \E closed \in Sweep :
       /\ ~Has(activeSessions, closed) /\ Has(store, closed)
       /\ drivers[closed] = 0
       /\ AgeAt(store[closed], now) > last.maxAge
       /\ AgeAt(store[closed], now) <= last.maxPersistentAge
  /\ \E kept \in Sweep :
       /\ Has(activeSessions, kept)
       /\ AgeAt(activeSessions[kept], now) <= last.maxAge

-----------------------------------------------------------------------------
(* recovery chosen by persisted status, with the waits of the recovery open
   to other requests *)

\* the block that opens initiateLogin, submitVerificationCode and
\* waitForEmailVerification (1753-1771), up to the build() its branch awaits
RecoverDispatch(id) ==
  /\ ~Has(activeSessions, id)
  /\ Has(store, id)
  /\ IF store[id].status = "logged_in" THEN ReconnectBegin(id) ELSE RecreateBegin(id)

NextRecover ==
  \/ \E id \in Focus : CreateSession(id, TRUE)
  \/ \E id \in Focus, status \in {"logged_in", "created"} :
        UpdateSessionStatus(id, status, None)
  \/ \E id \in Focus : RecoverDispatch(id)
  \/ \E i \in 1..Len(pending) : RecoverFinish(i)
  \/ \E id \in Focus : Reconnect(id, "ok")
  \/ \E id \in Focus : CloseSession(id, TRUE)
  \/ Tick
  \/ Restart

SpecRecover == Init /\ [][NextRecover]_vars

\* a recovery registers, for this id, a browser showing this page
Registers(id, urls) ==
  /\ last'.op \in {"recoverFinish", "reconnectSession", "recreateWebDriverSession"}
  /\ last'.id = id
  /\ last'.flag
  /\ activeSessions'[id].driver.url \in urls

\* C25: recovery is chosen by persisted status: a fresh unauthenticated
\* browser is registered only under a persisted record whose status is not
\* logged_in, a cookie-restoring one only under a record whose status is
\* logged_in, and reconnectSession on any other persisted status fails
\* without starting a browser.
C25_RecoveryByStatus ==
  [][\A id \in Focus :
       /\ Registers(id, {"blank"}) => store[id].status # "logged_in"
       /\ Registers(id, {"home", "signin"}) => store[id].status = "logged_in"
       /\ (/\ last'.op = "reconnectSession" /\ last'.id = id
           /\ ~Has(activeSessions, id) /\ Has(store, id)
           /\ store[id].status # "logged_in")
          => ~last'.ok /\ drivers' = drivers /\ activeSessions' = activeSessions]_vars

-----------------------------------------------------------------------------
\* C26: in reconnectSession the best-effort steps never abort the
\* reconnection: once the browser is built and the two page loads outside
\* them succeed, the call registers the new handle under the session id,
\* updates lastActiveAt and returns reconnected = true, whether or not any
\* cookie was accepted on any domain variant, whether or not local storage
\* was restored, and whether the verification ends on the home page, on the
\* sign-in page or with an error.
C26_BestEffortNeverAborts ==
  [][\A id \in Ids :
       (/\ last'.op = "reconnectSession" /\ last'.id = id
        /\ last'.restore # None
        /\ last'.restore[1].navigation = "ok") =>
         /\ last'.ok /\ last'.flag /\ last'.err = "none"
         /\ ~Has(activeSessions, id) /\ Has(activeSessions', id)
         /\ drivers'[id] = drivers[id] + 1
         /\ activeSessions'[id].status = "logged_in"
         /\ store'[id].lastActiveAt = now
         /\ store' = StoreUpdateLastActive(store, id, now)]_vars

\* a reconnection has registered a handle although no persisted cookie was
\* accepted on any domain variant, local storage could not be restored and
\* the verification threw
C26_Witness ==
  /\ last.op = "reconnectSession" /\ last.flag
  /\ Has(activeSessions, last.id)
  /\ PersistedCookies(store[last.id]) # EmptyMap
  /\ last.restore[1].jar = EmptyMap
  /\ ~last.restore[1].localStorage
  /\ last.restore[1].homeUrl = "throws"
  /\ store[last.id].lastActiveAt = now

\* a reconnection has registered a handle whose verification was bounced to
\* the sign-in page
C26_WitnessBounced ==
  /\ last.op = "reconnectSession" /\ last.flag
  /\ last.restore[1].homeUrl = "signin"
  /\ activeSessions[last.id].driver.url = "signin"

-----------------------------------------------------------------------------
(* the store methods and closeSession called one at a time, each running to
   its end before the next starts; canRead = FALSE is a call whose
   fs.readFile or JSON.parse throws (part_008 41-46) *)

\* part_008 66-82
SaveSessionCall(id, status, canRead) ==
  /\ store' = StoreSaveSession(LoadSessions(store, canRead), id,
                               StoreData(status, now), now)
  /\ last' = [Resp("saveSession", id) EXCEPT !.flag = canRead]
  /\ UNCHANGED <<activeSessions, drivers, used, now, pending, extracted,
                 writers, readable, driving>>

\* part_008 106-110
DeleteSessionCall(id, canRead) ==
  /\ store' = StoreDeleteSession(LoadSessions(store, canRead), id)
  /\ last' = [Resp("deleteSession", id) EXCEPT !.flag = canRead]
  /\ UNCHANGED <<activeSessions, drivers, used, now, pending, extracted,
                 writers, readable, driving>>

\* part_008 141-147: the file is written only when the loaded object holds id
UpdateLastActiveCall(id, canRead) ==
  LET sessions == LoadSessions(store, canRead) IN
  /\ store' = IF Has(sessions, id) THEN StoreUpdateLastActive(sessions, id, now)
              ELSE store
  /\ last' = [Resp("updateLastActive", id) EXCEPT !.flag = canRead]
  /\ UNCHANGED <<activeSessions, drivers, used, now, pending, extracted,
                 writers, readable, driving>>

\* substackService.js 2651-2679, its deleteSession (2667) reading as canRead says
CloseSessionCall(id, keepPersistent, canRead) ==
  /\ activeSessions' = IF Has(activeSessions, id) THEN Del(activeSessions, id)
                       ELSE activeSessions
  /\ drivers' = IF Has(activeSessions, id) THEN Quit(drivers, id) ELSE drivers
  /\ store' = IF keepPersistent THEN store
              ELSE StoreDeleteSession(LoadSessions(store, canRead), id)
  /\ extracted' = [extracted EXCEPT ![id] = None]
  /\ last' = [Resp("closeSession", id) EXCEPT !.ok = TRUE, !.flag = canRead]
  /\ UNCHANGED <<used, now, pending, writers, readable, driving>>

NextFrame ==
  \/ \E id \in Ids : CreateSession(id, TRUE)
  \/ \E id \in Ids, status \in {"logged_in", "created"}, canRead \in BOOLEAN :
        SaveSessionCall(id, status, canRead)
  \/ \E id \in Ids, canRead \in BOOLEAN : DeleteSessionCall(id, canRead)
  \/ \E id \in Ids, canRead \in BOOLEAN : UpdateLastActiveCall(id, canRead)
  \/ \E id \in Ids, keepPersistent \in BOOLEAN, canRead \in BOOLEAN :
        CloseSessionCall(id, keepPersistent, canRead)
  \/ Tick

SpecFrame == Init /\ [][NextFrame]_vars

\* the operations on one session id that the frame is about
FrameOps == {"saveSession", "deleteSession", "updateLastActive", "closeSession"}

\* the entry of id in a Map, or nothing
Entry(map, id) == IF Has(map, id) THEN Some(map[id]) ELSE None

\* C27: a saveSession, deleteSession, updateLastActive or closeSession for
\* id A, run on its own, leaves the persisted record and the live record of
\* every other id B exactly as they were, also when the read of the sessions
\* file that precedes its write failed.
C27_OtherSessionsUntouched ==
  [][\A A \in Ids :
       (last'.op \in FrameOps /\ last'.id = A) =>
         \A B \in Ids \ {A} :
           /\ Entry(store', B) = Entry(store, B)
           /\ Entry(activeSessions', B) = Entry(activeSessions, B)
           /\ drivers'[B] = drivers[B]]_vars

-----------------------------------------------------------------------------
(* the subdomain of the publish URL and the staleness guard of createPost *)

\* home pages createPost may read: the metadata names the user's
\* publication, or a provider subdomain; only links, the user's own among
\* them; only links, none the user's own; only provider links; nothing
HomePages ==
  {PlainHome,
   HomePage(<<"www">>, <<>>, {}),
   HomePage(<<>>, <<"www", "other", "pub">>, {"pub"}),
   HomePage(<<>>, <<"help", "other">>, {}),
   HomePage(<<>>, <<"support">>, {}),
   HomePage(<<>>, <<>>, {})}

\* what getUserData may meet, one case for each of its methods
Profiles ==
  {PubProfile, NoProfile,
   Profile(<<"www", "help">>, <<>>, <<>>, <<>>),
   Profile(<<>>, <<"help", "pub">>, <<>>, <<>>),
   Profile(<<>>, <<>>, <<"support", "help">>, <<>>),
   Profile(<<>>, <<>>, <<>>, <<"www", "pub">>)}

\* the clock moves on, up to one unit past MaxClock, so that a bundle
\* extracted at the first tick can be older than the freshness window
TickPast ==
  /\ now <= MaxClock
  /\ now' = now + 1
  /\ last' = Resp("tick", 0)
  /\ UNCHANGED <<activeSessions, store, drivers, used, pending, extracted,
                 writers, readable, driving>>

\* one funnel that goes through
GoodRuns == {CHOOSE run \in PublishRuns : run.ok}

NextResolve ==
  \/ \E id \in Focus : CreateSession(id, TRUE)
  \/ \E id \in Focus : InitiateLogin(id, "user@example.com", "ok", "signin", FoundAll)
  \/ \E id \in Focus, profile \in Profiles :
        SubmitVerificationCode(id, "ok", "left", <<TRUE, profile>>)
  \/ \E id \in Focus, subdomain \in {NullStr, "other"}, page \in HomePages :
        PostRequest(id, [title |-> Text(1, 1), content |-> Text(1, 1),
                         isDraft |-> FALSE, subdomain |-> subdomain],
                    page, GoodRuns, GoodRuns)
  \/ TickPast

SpecResolve == Init /\ [][NextResolve]_vars

\* the session createPost works on is the live one, or the one a reconnect
\* would register
PostSession(id) ==
  IF Has(activeSessions, id) THEN Some(activeSessions[id])
  ELSE IF Has(store, id) /\ store[id].status = "logged_in"
       THEN Some(RecoveredSession(store[id], "home"))
  ELSE None

\* the subdomain cached on a session, or null
CachedSubdomain(session) ==
  IF session.userData = None THEN NullStr ELSE session.userData[1].subdomain

\* C28: subdomain resolution in the create-post operation follows the
\* priority explicit override, cached value, auto-discovery: a subdomain
\* carried by the request is the one the publish URL is built from, without
\* it the cached value is, and the home page is visited for auto-discovery
\* only when there is neither an override nor a cached value.
C28_SubdomainPriority ==
  [][\A id \in Focus :
       (/\ last'.op = "createPost" /\ last'.id = id /\ last'.called
        /\ last'.err \notin {"validation", "not_found", "invalid_state"}
        /\ PostSession(id) # None /\ Has(activeSessions', id)) =>
         LET cached == CachedSubdomain(PostSession(id)[1]) IN
         /\ last'.requested # NullStr =>
               last'.subdomain = last'.requested /\ ~last'.discovery
         /\ (last'.requested = NullStr /\ cached # NullStr) =>
               last'.subdomain = cached /\ ~last'.discovery
         /\ last'.discovery => (last'.requested = NullStr /\ cached = NullStr)]_vars

\* the known non-user subdomains
KnownNonUser == {"www", "support", "help"}

\* C29: a subdomain obtained by auto-discovery, in createPost or in
\* getUserData, is never www, support or help: neither the subdomain a
\* session caches in its user data nor the one createPost builds the publish
\* URL from after auto-discovery.
C29_NeverNonUserSubdomain ==
  /\ \A id \in DOMAIN activeSessions :
       CachedSubdomain(activeSessions[id]) \notin KnownNonUser
  /\ (last.op = "createPost" /\ last.discovery) => last.subdomain \notin KnownNonUser

\* the extraction instant a session carries, or nothing
ExtractedAt(session) ==
  IF session.userData = None THEN None
  ELSE IF session.userData[1].authTokens = None THEN None
  ELSE Some(session.userData[1].authTokens[1].extractedAt)

C30_WitnessAtLimit ==
  /\ last.op = "createPost" /\ last.ok
  /\ last.refresh = "none"
  /\ ExtractedAt(activeSessions[last.id]) # None
  /\ now - ExtractedAt(activeSessions[last.id])[1] = FreshnessWindow

-----------------------------------------------------------------------------
\* C31 as stated: waitForEmailVerification on a live session ends, once the
\* deadline has passed, with logged_in or with verification_timeout,
\* whatever the polls before the deadline read or threw.
C31_WaitEndsInOneOfTwo ==
  [][\A id \in Ids :
       (/\ last'.op = "waitForEmailVerification" /\ last'.id = id
        /\ Has(activeSessions, id)) =>
         /\ last'.status \in {"logged_in", "verification_timeout"}
         /\ last'.err = "none"]_vars

----------------------------------------------------------------------------
\* C32 as stated: a credential minted when a login completes names the
\* provider "substack" and expires exactly 24 hours (86,400 seconds) after
\* its issued-at time, whichever user-data fields were found.
C32_ExpiryOneDayAfterIssue ==
  (/\ last.op \in {"submitVerificationCode", "waitForEmailVerification"}
   /\ last.token # None) =>
     /\ last.token[1].provider = "substack"
     /\ last.token[1].exp = last.token[1].iat + TokenLifetime

----------------------------------------------------------------------------
----------------------------------------------------------------------------
(* The sweep on its timer, substackService.js 4281-4282: setInterval calls
   cleanupOldSessions with no arguments every 24 hours *)

TimerPeriod == 2                \* 24 hours, in clock units of 12 hours
DefaultMaxAge == 14             \* 7 days (2687)
DefaultMaxPersistentAge == 180  \* 90 days (2688)
MaxDays == 8                    \* days the clock runs

\* the clock stops at the end of the last day
Horizon == MaxDays * TimerPeriod

TimerSweep == SweepSessions(DefaultMaxAge, DefaultMaxPersistentAge, 0)

DayPasses ==
  /\ now < Horizon
  /\ now' = now + TimerPeriod
  /\ last' = Resp("tick", 0)
  /\ UNCHANGED <<activeSessions, store, drivers, used, pending, extracted,
                 writers, readable, driving>>

\* sessions are created while the clock can still take them past the
\* default age; recovery, login and close come at any time
NextTimer ==
  \/ \E id \in Focus : now + DefaultMaxAge < Horizon /\ CreateSession(id, TRUE)
  \/ \E id \in Focus : Has(activeSessions, id) /\
        InitiateLogin(id, "user@example.com", "ok", "signin", FoundAll)
  \/ \E id \in Focus : Has(activeSessions, id) /\
        SubmitVerificationCode(id, "ok", "left", FoundAll)
  \/ \E id \in Focus : \E o \in RecoverChoices(id, {"ok", "bounced", "build_fail"}) :
        Reconnect(id, o)
  \/ \E id \in Focus : \E o \in RecoverChoices(id, {"ok", "build_fail"}) :
        Recreate(id, o)
  \/ \E id \in Focus, keep \in BOOLEAN : CloseSession(id, keep)
  \/ TimerSweep
  \/ DayPasses

\* the timer keeps firing and time keeps passing
SpecTimer ==
  Init /\ [][NextTimer]_vars /\ WF_vars(TimerSweep) /\ WF_vars(DayPasses)

\* C34: with the sweep on its timer and time passing, a session that has a
\* live handle eventually has none, again and again if it is reconnected or
\* recreated after a sweep; a recovered session has the creation time of its
\* persisted record, so its age runs from the original createdAt.
C34_HandlesEventuallyClosed ==
  /\ \A id \in Focus : Has(activeSessions, id) ~> ~Has(activeSessions, id)
  /\ [][\A id \in Focus :
          (/\ last'.op \in {"reconnectSession", "recreateWebDriverSession"}
           /\ last'.id = id /\ last'.flag) =>
             GetTime(activeSessions'[id].createdAt) = GetTime(store[id].createdAt)]_vars

\* a session older than the default age was recovered and holds a live
\* handle, which the next sweep of the timer has to close again
C34_Witness ==
  /\ last.op \in {"reconnectSession", "recreateWebDriverSession"} /\ last.flag
  /\ Has(activeSessions, last.id)
  /\ now - GetTime(activeSessions[last.id].createdAt) > DefaultMaxAge

----------------------------------------------------------------------------
\* C35 as stated: between operations, a session that is in the registry and
\* in the store has the same status and the same email in both.
C35_LiveAndPersistedAgree ==
  \A id \in Ids :
    (Has(activeSessions, id) /\ Has(store, id)) =>
      /\ activeSessions[id].status = store[id].status
      /\ activeSessions[id].email = store[id].email

----------------------------------------------------------------------------
\* C36 as stated: every id in the live registry is also a key of the store,
\* after any createSession, login, recovery, closeSession and
\* cleanupOldSessions with any thresholds.
C36_LiveImpliesPersisted ==
  \A id \in Ids : Has(activeSessions, id) => Has(store, id)

----------------------------------------------------------------------------
\* C37 as stated: between operations every browser that was started and has
\* not been quit is the one the registry holds for its session, so a session
\* has one running browser when it is registered and none when it is not.
C37_NoOrphanedBrowser ==
  \A id \in Ids :
    drivers[id] = IF Has(activeSessions, id) THEN 1 ELSE 0

----------------------------------------------------------------------------
\* C38 as stated: a manual status update that supplies no userData leaves
\* the persisted record's userData, with its cookie bundle, and the live
\* record's userData as they were.
C38_StatusUpdateKeepsUserData ==
  [][\A id \in Ids :
       (/\ last'.op = "updateSessionStatus" /\ last'.id = id /\ last'.ok) =>
         /\ Has(store, id) => store'[id].userData = store[id].userData
         /\ Has(activeSessions, id) =>
              activeSessions'[id].userData = activeSessions[id].userData]_vars

----------------------------------------------------------------------------
\* C39 as stated: after refreshSessionAuth returns success on a logged-in
\* session, the bundle just extracted is the persisted record's
\* userData.authTokens and shouldRefreshAuth is false for the session,
\* whether or not its live record had userData; on an id without a live handle it returns failure,
\* starts no browser and changes nothing.
C39_RefreshStoresFreshBundle ==
  [][\A id \in Ids :
       (last'.op = "refreshSessionAuth" /\ last'.id = id) =>
         IF last'.ok
         THEN activeSessions[id].status = "logged_in" =>
              /\ Has(store', id) /\ store'[id].userData # None
              /\ store'[id].userData[1].authTokens = Some(ExtractAuthTokens(now))
              /\ ~ShouldRefreshAuth(activeSessions'[id], now')
         ELSE ~Has(activeSessions, id) =>
                UNCHANGED <<activeSessions, store, drivers>>]_vars

----------------------------------------------------------------------------
(* getAllActiveSessions, substackService.js 2597-2643 *)

\* the keys of a map in the order they are listed
RECURSIVE Entries(_)
Entries(keys) ==
  IF keys = {} THEN <<>>
  ELSE <<MinOf(keys)>> \o Entries(keys \ {MinOf(keys)})

\* a second loop that would list every persisted session
AnyPersisted(act, sessionId) == TRUE

\* 2619: !activeSessions.has(sessionId)
NotCurrentlyActive(act, sessionId) == ~Has(act, sessionId)

\* 2602-2612
ActiveSessionsArray(act, persistentSessions) ==
  LET ids == Entries(DOMAIN act) IN
  [i \in 1..Len(ids) |->
     [sessionId |-> ids[i], status |-> act[ids[i]].status,
      isActive |-> TRUE, isPersistent |-> Has(persistentSessions, ids[i])]]

\* 2615-2632
PersistentSessionsArray(act, persistentSessions) ==
  LET ids == Entries({id \in DOMAIN persistentSessions :
                         NotCurrentlyActive(act, id)}) IN
  [i \in 1..Len(ids) |->
     [sessionId |-> ids[i], status |-> persistentSessions[ids[i]].status,
      isActive |-> FALSE, isPersistent |-> TRUE]]

\* 2599: the store is read first, and a file that cannot be read or parsed
\* is read as {} (part_008 39-47, 98-100); flag tells whether it was read
GetAllActiveSessions(canRead) ==
  LET persistentSessions == LoadSessions(store, canRead)
      active == ActiveSessionsArray(activeSessions, persistentSessions)
      persistent == PersistentSessionsArray(activeSessions, persistentSessions) IN
  /\ last' = [Resp("getAllActiveSessions", 0) EXCEPT
                !.flag = canRead,
                !.listing = Some([active |-> active, persistent |-> persistent,
                                  total |-> Len(active) + Len(persistent)])]
  /\ UNCHANGED <<activeSessions, store, drivers, used, now, pending, extracted,
                 writers, readable, driving>>

\* sessions that are live and persisted, live only, and persisted only
NextList ==
  \/ \E id \in Ids : CreateSession(id, TRUE)
  \/ \E id \in Ids, keep \in BOOLEAN : CloseSession(id, keep)
  \/ \E id \in Ids : \E o \in RecoverChoices(id, {"ok"}) : Recreate(id, o)
  \/ \E maxAge \in SweepThresholds, maxPersistentAge \in SweepThresholds :
        CleanupOldSessions(maxAge, maxPersistentAge, 0)
  \/ \E canRead \in BOOLEAN : GetAllActiveSessions(canRead)
  \/ Tick
  \/ Restart

SpecList == Init /\ [][NextList]_vars

SessionIds(sessions) == {sessions[i].sessionId : i \in 1..Len(sessions)}

\* each of ids is listed exactly once in sessions, and nothing else is
ListsExactly(sessions, ids) ==
  /\ SessionIds(sessions) = ids
  /\ Len(sessions) = Cardinality(ids)

\* C40 as stated: every live id is listed once as active, every id that is
\* only in the store once as persistent, none in both, and total is the
\* number of distinct ids of the registry and the store.
C40_ListingPartitionsKnown ==
  (last.op = "getAllActiveSessions") =>
    LET listing == last.listing[1] IN
    /\ ListsExactly(listing.active, DOMAIN activeSessions)
    /\ ListsExactly(listing.persistent, DOMAIN store \ DOMAIN activeSessions)
    /\ SessionIds(listing.active) \cap SessionIds(listing.persistent) = {}
    /\ listing.total = Cardinality(DOMAIN activeSessions \cup DOMAIN store)

\* C40 amended: the listing partitions the ids of the registry and of the
\* store as it was read. Every live id is listed once as active and no id is
\* in both lists; when sessions.json was read, every id that is only in the
\* store is listed once as persistent and total counts the distinct ids of
\* both; when it could not be read, the persistent list is empty, total
\* counts the live ids only and every live id is reported as not persisted.
C40_ListingPartitionsRead ==
  (last.op = "getAllActiveSessions") =>
    LET listing == last.listing[1]
        read == IF last.flag THEN DOMAIN store ELSE {} IN
    /\ ListsExactly(listing.active, DOMAIN activeSessions)
    /\ ListsExactly(listing.persistent, read \ DOMAIN activeSessions)
    /\ SessionIds(listing.active) \cap SessionIds(listing.persistent) = {}
    /\ listing.total = Cardinality(DOMAIN activeSessions \cup read)
    /\ \A i \in 1..Len(listing.active) :
         listing.active[i].isPersistent = (listing.active[i].sessionId \in read)

\* a listing of one live session and one session that is only persisted
C40_Witness ==
  /\ last.op = "getAllActiveSessions" /\ last.flag
  /\ Len(last.listing[1].active) = 1
  /\ Len(last.listing[1].persistent) = 1
  /\ last.listing[1].total = 2

\* a listing made while the file could not be read, with a session that is
\* only persisted
C40_WitnessUnread ==
  /\ last.op = "getAllActiveSessions" /\ ~last.flag
  /\ DOMAIN store \ DOMAIN activeSessions # {}
  /\ last.listing[1].persistent = <<>>

====
